---- MODULE Spec2Model ----
(***************************************************************************)
(* widget2code: the layout inference engine (layout_json_to_dsl.py) and    *)
(* the markup compiler (html_compiler.py), modelled as a state machine.    *)
(*                                                                         *)
(* Python values: a dict is a function from field names (a record); a     *)
(* missing key is a name outside DOMAIN.  Strings the code transforms      *)
(* (type, direction: .lower(), substring tests) are tuples of characters;  *)
(* strings it only copies are TLA+ strings.  Coordinates are integers;     *)
(* halves (centres, medians) are kept doubled, the 8% tolerance is kept    *)
(* multiplied out, so every comparison is exact.                           *)
(***************************************************************************)
EXTENDS Integers, Sequences, FiniteSets, TLC

VARIABLES
    layout_json,        \* input of layout_json_to_widget_dsl (a layout node)
    physical_size,      \* device physical (width, height)
    virtual_size,       \* device virtual (width, height)
    widget_dsl,         \* the compiler's input: converter output or a given spec
    pc,                 \* position of the program
    error,              \* "" or the hard error that was raised
    stack,              \* pending work of render_node's recursion
    lines,              \* compile_widget_dsl_to_html: lines
    scripts,            \* compile_widget_dsl_to_html: scripts
    component_counter,  \* compile_widget_dsl_to_html: component_counter
    html                \* the returned document, or <<>> when none was returned

vars == <<layout_json, physical_size, virtual_size, widget_dsl, pc, error,
          stack, lines, scripts, component_counter, html>>

----------------------------------------------------------------------------
(* Generic helpers for Python semantics *)

Max(a, b) == IF a >= b THEN a ELSE b

Min(a, b) == IF a <= b THEN a ELSE b

Abs(a) == IF a >= 0 THEN a ELSE -a

\* dict.get(k, default)
Get(d, k, default) == IF k \in DOMAIN d THEN d[k] ELSE default

Has(d, k) == k \in DOMAIN d

SetMax(S) == CHOOSE m \in S : \A x \in S : x <= m

SetMin(S) == CHOOSE m \in S : \A x \in S : m <= x

Range(s) == {s[i] : i \in DOMAIN s}

\* Python's round() to an integer of the number n2/2: ties go to the even
\* neighbour (banker's rounding).
RoundHalf(n2) ==
    IF n2 % 2 = 0 THEN n2 \div 2
    ELSE LET lo == (n2 - 1) \div 2 IN IF lo % 2 = 0 THEN lo ELSE lo + 1

\* Python's round() to an integer of the rational num/den (den > 0).
RoundRatio(num, den) ==
    LET q == num \div den
        r2 == 2 * (num - q * den)
    IN  IF r2 < den THEN q
        ELSE IF r2 > den THEN q + 1
        ELSE IF q % 2 = 0 THEN q ELSE q + 1

\* str.lower() on a tuple of characters
LowerChar(c) ==
    CASE c = "A" -> "a" [] c = "C" -> "c" [] c = "E" -> "e" [] c = "G" -> "g"
      [] c = "I" -> "i" [] c = "K" -> "k" [] c = "L" -> "l" [] c = "M" -> "m"
      [] c = "N" -> "n" [] c = "O" -> "o" [] c = "P" -> "p" [] c = "R" -> "r"
      [] c = "S" -> "s" [] c = "T" -> "t" [] c = "V" -> "v" [] c = "W" -> "w"
      [] c = "X" -> "x" [] OTHER -> c

Lower(s) == [i \in DOMAIN s |-> LowerChar(s[i])]

\* `needle in haystack` on tuples of characters
Contains(haystack, needle) ==
    \E i \in 0..(Len(haystack) - Len(needle)) :
        \A j \in 1..Len(needle) : haystack[i + j] = needle[j]

----------------------------------------------------------------------------
(* Geometry primitives: class Rect *)

Rect(l, t, r, b) == [left |-> l, top |-> t, right |-> r, bottom |-> b]

\* Mutant: the difference is not clamped at 0.
width_Signed(rect) == rect.right - rect.left

width(rect) == Max(0, rect.right - rect.left)

height(rect) == Max(0, rect.bottom - rect.top)

\* 2 * center_x and 2 * center_y (the code divides the size by 2)
center_x2(rect) == 2 * rect.left + width(rect)

center_y2(rect) == 2 * rect.top + height(rect)

_rect_from_bounds(bounds) == Rect(bounds[1], bounds[2], bounds[3], bounds[4])

_node_children(node) == Get(node, "subNodes", <<>>)

\* child.get("bounds") is truthy
HasBounds(node) == Has(node, "bounds") /\ Len(node.bounds) > 0

ZeroBounds == <<0, 0, 0, 0>>

----------------------------------------------------------------------------
(* Optional values: Python's None and a present value *)

None == <<>>

Some(v) == <<v>>

\* A raised exception, as the value a call yields instead of its result
Raise(kind) == [raised |-> kind]

IsRaised(v) == Has(v, "raised")

\* dsl_node.pop(k) for every optional key k whose value is None
PopNone(full, optional) ==
    LET keep == {k \in DOMAIN full : k \notin optional \/ full[k] # None}
    IN  [k \in keep |-> IF k \in optional THEN full[k][1] ELSE full[k]]

----------------------------------------------------------------------------
(* estimate_font_size *)

MinFontSize == 10

\* scale as a fraction <<numerator, denominator>>
Scale(physical, virtual) ==
    IF virtual[1] > 0 THEN <<physical[1], virtual[1]>>
    ELSE IF virtual[2] > 0 THEN <<physical[2], virtual[2]>>
    ELSE <<1, 1>>

\* Mutant: the result is not clamped to the minimum.
estimate_font_size_NoFloor(bounds, physical, virtual, num_lines) ==
    LET scale == Scale(physical, virtual)
    IN  RoundRatio(height(bounds) * scale[2] * 5, scale[1] * Max(1, num_lines) * 6)

estimate_font_size(bounds, physical, virtual, num_lines) ==
    LET scale == Scale(physical, virtual)
        \* bounds.height / scale / max(1, num_lines) / 1.2, and 1.2 = 6/5
        num == height(bounds) * scale[2] * 5
        den == scale[1] * Max(1, num_lines) * 6
    IN  Max(MinFontSize, RoundRatio(num, den))

----------------------------------------------------------------------------
(* _infer_gap *)

MainStart(rect, direction) == IF direction = "row" THEN rect.left ELSE rect.top

MainEnd(rect, direction) == IF direction = "row" THEN rect.right ELSE rect.bottom

\* list.sort(key=...) is stable: an element goes after every element whose
\* key is not larger.
RECURSIVE InsertByKey(_, _, _)
InsertByKey(sorted, rect, direction) ==
    IF sorted = <<>> THEN <<rect>>
    ELSE IF MainStart(Head(sorted), direction) <= MainStart(rect, direction)
         THEN <<Head(sorted)>> \o InsertByKey(Tail(sorted), rect, direction)
         ELSE <<rect>> \o sorted

\* Mutant: the rectangles are left in their given order.
SortRects_Unsorted(rects, direction) == rects

RECURSIVE SortRects(_, _)
SortRects(rects, direction) ==
    IF rects = <<>> THEN <<>>
    ELSE InsertByKey(SortRects(SubSeq(rects, 1, Len(rects) - 1), direction),
                     rects[Len(rects)], direction)

RECURSIVE InsertNum(_, _)
InsertNum(sorted, n) ==
    IF sorted = <<>> THEN <<n>>
    ELSE IF Head(sorted) <= n THEN <<Head(sorted)>> \o InsertNum(Tail(sorted), n)
         ELSE <<n>> \o sorted

RECURSIVE SortNums(_)
SortNums(s) ==
    IF s = <<>> THEN <<>>
    ELSE InsertNum(SortNums(SubSeq(s, 1, Len(s) - 1)), s[Len(s)])

\* 2 * statistics.median(data), data not empty
Median2(data) ==
    LET s == SortNums(data)
        n == Len(s)
    IN  IF n % 2 = 1 THEN 2 * s[(n + 1) \div 2]
        ELSE s[n \div 2] + s[n \div 2 + 1]

\* [_rect_from_bounds(child["bounds"]) for child in children if child.get("bounds")]
\* Mutant: a child without bounds counts with the zero rectangle.
BoundedRects_ZeroFill(children) ==
    [i \in DOMAIN children |-> _rect_from_bounds(Get(children[i], "bounds", ZeroBounds))]

BoundedRects(children) ==
    LET keep == SelectSeq(children, HasBounds)
    IN  [i \in DOMAIN keep |-> _rect_from_bounds(keep[i].bounds)]

PositiveGaps(rects, direction) ==
    LET all == [i \in 1..(Len(rects) - 1) |->
                   MainStart(rects[i + 1], direction) - MainEnd(rects[i], direction)]
    IN  SelectSeq(all, LAMBDA g : g > 0)

_infer_gap(children, direction) ==
    IF Len(children) < 2 THEN 0
    ELSE LET rects == BoundedRects(children)
         IN  IF Len(rects) < 2 THEN 0
             ELSE LET gaps == PositiveGaps(SortRects(rects, direction), direction)
                  IN  IF gaps = <<>> THEN 0 ELSE RoundHalf(Median2(gaps))

----------------------------------------------------------------------------
(* _align_main, _align_cross *)

MinTolerance == 8

\* Mutant: a fixed tolerance of 8, without the 8% of the axis size.
WithinTolerance_Fixed(d2, axis_size) == 25 * Abs(d2) <= 50 * MinTolerance

\* abs(d2 / 2) <= max(8, axis_size * 0.08), with d2 twice the distance:
\* 25 * |d2| <= max(400, 4 * axis_size)
WithinTolerance(d2, axis_size) ==
    25 * Abs(d2) <= Max(50 * MinTolerance, 4 * axis_size)

\* Mutant: the start test runs before the centre test.
_align_main_StartFirst(container, children, direction) ==
    IF children = <<>> THEN None
    ELSE
    LET axis_start == IF direction = "row" THEN container.left ELSE container.top
        axis_end == IF direction = "row" THEN container.right ELSE container.bottom
        axis_size == IF direction = "row" THEN width(container) ELSE height(container)
        axis_center2 == IF direction = "row" THEN center_x2(container)
                        ELSE center_y2(container)
        child_start == SetMin({MainStart(children[i], direction) : i \in DOMAIN children})
        child_end == SetMax({MainEnd(children[i], direction) : i \in DOMAIN children})
        near_start == WithinTolerance(2 * (child_start - axis_start), axis_size)
        near_end == WithinTolerance(2 * (axis_end - child_end), axis_size)
    IN  IF Len(children) > 1 /\ near_start /\ near_end THEN Some("between")
        ELSE IF near_start THEN Some("start")
        ELSE IF WithinTolerance(child_start + child_end - axis_center2, axis_size)
             THEN Some("center")
        ELSE IF near_end THEN Some("end")
        ELSE Some("start")

_align_main(container, children, direction) ==
    IF children = <<>> THEN None
    ELSE
    LET axis_start == IF direction = "row" THEN container.left ELSE container.top
        axis_end == IF direction = "row" THEN container.right ELSE container.bottom
        axis_size == IF direction = "row" THEN width(container) ELSE height(container)
        axis_center2 == IF direction = "row" THEN center_x2(container)
                        ELSE center_y2(container)
        child_start == SetMin({MainStart(children[i], direction) : i \in DOMAIN children})
        child_end == SetMax({MainEnd(children[i], direction) : i \in DOMAIN children})
        child_center2 == child_start + child_end
        near_start == WithinTolerance(2 * (child_start - axis_start), axis_size)
        near_end == WithinTolerance(2 * (axis_end - child_end), axis_size)
    IN  IF Len(children) > 1 /\ near_start /\ near_end THEN Some("between")
        ELSE IF WithinTolerance(child_center2 - axis_center2, axis_size)
             THEN Some("center")
        ELSE IF near_start THEN Some("start")
        ELSE IF near_end THEN Some("end")
        ELSE Some("start")

CrossStart(rect, direction) == IF direction = "row" THEN rect.top ELSE rect.left

CrossEnd(rect, direction) == IF direction = "row" THEN rect.bottom ELSE rect.right

CrossCenter2(rect, direction) ==
    IF direction = "row" THEN center_y2(rect) ELSE center_x2(rect)

RECURSIVE SumSeq(_)
SumSeq(s) == IF s = <<>> THEN 0 ELSE Head(s) + SumSeq(Tail(s))

\* Mutant: start and end are decided from the average centre too.
_align_cross_AverageOnly(container, children, direction) ==
    IF children = <<>> THEN None
    ELSE
    LET axis_start == IF direction = "row" THEN container.top ELSE container.left
        axis_end == IF direction = "row" THEN container.bottom ELSE container.right
        axis_size == IF direction = "row" THEN height(container) ELSE width(container)
        n == Len(children)
        centers2 == SumSeq([i \in DOMAIN children |-> CrossCenter2(children[i], direction)])
        near(x2) == 25 * Abs(centers2 - n * x2) <= n * Max(50 * MinTolerance, 4 * axis_size)
    IN  IF near(CrossCenter2(container, direction)) THEN Some("center")
        ELSE IF near(2 * axis_start) THEN Some("start")
        ELSE IF near(2 * axis_end) THEN Some("end")
        ELSE Some("start")

_align_cross(container, children, direction) ==
    IF children = <<>> THEN None
    ELSE
    LET axis_start == IF direction = "row" THEN container.top ELSE container.left
        axis_end == IF direction = "row" THEN container.bottom ELSE container.right
        axis_size == IF direction = "row" THEN height(container) ELSE width(container)
        axis_center2 == CrossCenter2(container, direction)
        n == Len(children)
        \* sum of 2 * centre; average_center = centers2 / (2 * n)
        centers2 == SumSeq([i \in DOMAIN children |-> CrossCenter2(children[i], direction)])
        min_edge == SetMin({CrossStart(children[i], direction) : i \in DOMAIN children})
        max_edge == SetMax({CrossEnd(children[i], direction) : i \in DOMAIN children})
    IN  \* abs(centers2/(2n) - axis_center2/2) <= tolerance, multiplied by n
        IF 25 * Abs(centers2 - n * axis_center2)
              <= n * Max(50 * MinTolerance, 4 * axis_size)
        THEN Some("center")
        ELSE IF WithinTolerance(2 * (min_edge - axis_start), axis_size) THEN Some("start")
        ELSE IF WithinTolerance(2 * (axis_end - max_edge), axis_size) THEN Some("end")
        ELSE Some("start")

----------------------------------------------------------------------------
(* _map_direction, _leaf_component *)

\* Mutant: "col" and "stack" are looked for before "row".
_map_direction_ColFirst(value) ==
    IF value = <<>> THEN "col"
    ELSE LET lowered == Lower(value)
         IN  IF Contains(lowered, <<"c", "o", "l">>) THEN "col"
             ELSE IF Contains(lowered, <<"s", "t", "a", "c", "k">>) THEN "col"
             ELSE IF Contains(lowered, <<"r", "o", "w">>) THEN "row"
             ELSE "col"

_map_direction(value) ==
    IF value = <<>> THEN "col"
    ELSE LET lowered == Lower(value)
         IN  IF Contains(lowered, <<"r", "o", "w">>) THEN "row"
             ELSE IF Contains(lowered, <<"c", "o", "l">>) THEN "col"
             ELSE IF Contains(lowered, <<"s", "t", "a", "c", "k">>) THEN "col"
             ELSE "col"

\* Mutant: the type is compared without lower().
_leaf_component_CaseSensitive(node) ==
    LET node_type == Get(node, "type", <<>>)
    IN  IF node_type \in {<<"t", "e", "x", "t">>,
                          <<"p", "a", "r", "a", "g", "r", "a", "p", "h">>}
        THEN Some("Text")
        ELSE IF node_type = <<"i", "c", "o", "n">> THEN Some("Icon")
        ELSE IF node_type = <<"i", "m", "a", "g", "e">> THEN Some("Image")
        ELSE None

_leaf_component(node) ==
    LET node_type == Lower(Get(node, "type", <<>>))
    IN  IF node_type \in {<<"t", "e", "x", "t">>,
                          <<"p", "a", "r", "a", "g", "r", "a", "p", "h">>}
        THEN Some("Text")
        ELSE IF node_type = <<"i", "c", "o", "n">> THEN Some("Icon")
        ELSE IF node_type = <<"i", "m", "a", "g", "e">> THEN Some("Image")
        ELSE None

----------------------------------------------------------------------------
(* _convert_leaf, _infer_flex, _convert_container, _convert_node *)

MinIconSize == 12

\* Mutant: the Image leaf is emitted without its component.
_convert_leaf_NoComponent(node, rect, physical, virtual) ==
    LET component == _leaf_component(node)
    IN  IF component = None THEN Raise("UnsupportedNodeType")
        ELSE IF component[1] = "Image"
        THEN [type |-> "leaf", props |-> [src |-> ""],
              width |-> width(rect), height |-> height(rect)]
        ELSE [type |-> "leaf", component |-> component[1],
              content |-> Get(node, "text", ""),
              props |-> [name |-> Get(node, "content", "")]]

_convert_leaf(node, rect, physical, virtual) ==
    LET component == _leaf_component(node)
    IN  IF component = None THEN Raise("UnsupportedNodeType")
        ELSE IF component[1] = "Text" THEN
            LET nl == Get(node, "num_line", 1)
                \* int(node.get("num_line", 1) or 1)
                num_lines == IF nl = 0 THEN 1 ELSE nl
                fontSize == estimate_font_size(rect, physical, virtual, num_lines)
            IN  [type |-> "leaf", component |-> "Text",
                 content |-> Get(node, "text", ""),
                 props |-> IF num_lines > 1
                           THEN [fontSize |-> fontSize, maxLines |-> num_lines]
                           ELSE [fontSize |-> fontSize]]
        ELSE IF component[1] = "Icon" THEN
            [type |-> "leaf", component |-> "Icon",
             props |-> [name |-> Get(node, "content", ""),
                        size |-> Max(MinIconSize, height(rect))]]
        ELSE
            [type |-> "leaf", component |-> "Image",
             props |-> [src |-> ""],
             width |-> width(rect), height |-> height(rect)]

\* Mutant: the sizes are always the widths, whatever the parent's direction.
_infer_flex_WidthOnly(rect, parent_rect, parent_direction) ==
    IF parent_rect = None \/ parent_direction = None THEN None
    ELSE IF width(parent_rect[1]) <= 0 THEN None
    ELSE Some(Max(0, RoundRatio(1000 * width(rect), width(parent_rect[1]))))

\* The result is in thousandths: round(ratio, 3) * 1000.
_infer_flex(rect, parent_rect, parent_direction) ==
    IF parent_rect = None \/ parent_direction = None THEN None
    ELSE LET parent_size == IF parent_direction[1] = "row" THEN width(parent_rect[1])
                            ELSE height(parent_rect[1])
             child_size == IF parent_direction[1] = "row" THEN width(rect)
                           ELSE height(rect)
         IN  IF parent_size <= 0 THEN None
             ELSE Some(Max(0, RoundRatio(1000 * child_size, parent_size)))

RECURSIVE _convert_node(_, _, _, _, _)
RECURSIVE _convert_container(_, _, _, _, _, _)

\* The nodes in the order of their leading edges, as _infer_gap sorts rects
RECURSIVE SortNodes(_, _)
SortNodes(nodes, direction) ==
    LET Key(n) == MainStart(_rect_from_bounds(Get(n, "bounds", ZeroBounds)), direction)
        RECURSIVE Insert(_, _)
        Insert(sorted, n) ==
            IF sorted = <<>> THEN <<n>>
            ELSE IF Key(Head(sorted)) <= Key(n)
                 THEN <<Head(sorted)>> \o Insert(Tail(sorted), n)
                 ELSE <<n>> \o sorted
    IN  IF nodes = <<>> THEN <<>>
        ELSE Insert(SortNodes(SubSeq(nodes, 1, Len(nodes) - 1), direction),
                    nodes[Len(nodes)])

\* Mutant: the children are emitted in the order of their leading edges.
_convert_container_SortedChildren(node, rect, physical, virtual, parent_rect, parent_direction) ==
    LET direction == _map_direction(Get(node, "direction", <<>>))
        subs == SortNodes(_node_children(node), direction)
        children == [i \in DOMAIN subs |->
                        _convert_node(subs[i], physical, virtual,
                                      Some(rect), Some(direction))]
        child_rects == BoundedRects(subs)
        failed == {i \in DOMAIN children : IsRaised(children[i])}
        dsl_node == [type |-> "container",
                     direction |-> direction,
                     gap |-> _infer_gap(subs, direction),
                     alignMain |-> _align_main(rect, child_rects, direction),
                     alignCross |-> _align_cross(rect, child_rects, direction),
                     flex |-> _infer_flex(rect, parent_rect, parent_direction),
                     children |-> children]
    IN  IF failed # {} THEN children[SetMin(failed)]
        ELSE PopNone(dsl_node, {"alignMain", "alignCross", "flex"})

_convert_container(node, rect, physical, virtual, parent_rect, parent_direction) ==
    LET direction == _map_direction(Get(node, "direction", <<>>))
        subs == _node_children(node)
        children == [i \in DOMAIN subs |->
                        _convert_node(subs[i], physical, virtual,
                                      Some(rect), Some(direction))]
        child_rects == BoundedRects(subs)
        failed == {i \in DOMAIN children : IsRaised(children[i])}
        dsl_node == [type |-> "container",
                     direction |-> direction,
                     gap |-> _infer_gap(subs, direction),
                     alignMain |-> _align_main(rect, child_rects, direction),
                     alignCross |-> _align_cross(rect, child_rects, direction),
                     flex |-> _infer_flex(rect, parent_rect, parent_direction),
                     children |-> children]
    IN  \* an exception raised while converting a child leaves the call
        IF failed # {} THEN children[SetMin(failed)]
        ELSE PopNone(dsl_node, {"alignMain", "alignCross", "flex"})

\* Mutant: every node without children goes to _convert_leaf.
_convert_node_LeafFirst(node, physical, virtual, parent_rect, parent_direction) ==
    LET rect == _rect_from_bounds(Get(node, "bounds", ZeroBounds))
    IN  IF _node_children(node) = <<>>
        THEN _convert_leaf(node, rect, physical, virtual)
        ELSE _convert_container(node, rect, physical, virtual,
                                parent_rect, parent_direction)

_convert_node(node, physical, virtual, parent_rect, parent_direction) ==
    LET rect == _rect_from_bounds(Get(node, "bounds", ZeroBounds))
        children == _node_children(node)
        component == _leaf_component(node)
    IN  IF component # None /\ children = <<>>
        THEN _convert_leaf(node, rect, physical, virtual)
        ELSE _convert_container(node, rect, physical, virtual,
                                parent_rect, parent_direction)

layout_json_to_widget_dsl(layout, physical, virtual) ==
    LET root_rect == _rect_from_bounds(Get(layout, "bounds", ZeroBounds))
        root_node == _convert_node(layout, physical, virtual, None, None)
    IN  IF IsRaised(root_node) THEN root_node
        ELSE [widget |-> [padding |-> 0,
                          aspectRatio |-> <<width(root_rect), height(root_rect)>>,
                          root |-> root_node]]

----------------------------------------------------------------------------
(* compile_widget_dsl_to_html: the renderers.                              *)
(* A markup line is a record: its depth (the indentation), its element and *)
(* what the renderer put into it.  A style list is a tuple of              *)
(* <<property, value>> pairs in the order the code appends them.  A        *)
(* behaviour script is a record of what its text is built from.            *)

\* node.get(k): None when the key is missing
GetOpt(d, k) == IF k \in DOMAIN d THEN Some(d[k]) ELSE None

\* Truthiness of a string obtained by .get(): present and not empty
Truthy(opt) == opt # None /\ opt[1] # ""

\* if flex is not None / width is not None / height is not None
SizeStyles(flex, w, h) ==
    (IF flex # None THEN << <<"flex", flex[1]>> >> ELSE <<>>)
    \o (IF w # None THEN << <<"width", w[1]>> >> ELSE <<>>)
    \o (IF h # None THEN << <<"height", h[1]>> >> ELSE <<>>)

AlignMainMap(a) ==
    CASE a = "start" -> "flex-start" [] a = "end" -> "flex-end"
      [] a = "center" -> "center" [] a = "between" -> "space-between"
      [] OTHER -> a

\* Mutant: the cross axis is mapped through the table of the main axis.
AlignCrossMap_WithBetween(a) ==
    CASE a = "start" -> "flex-start" [] a = "end" -> "flex-end"
      [] a = "center" -> "center" [] a = "between" -> "space-between"
      [] OTHER -> a

AlignCrossMap(a) ==
    CASE a = "start" -> "flex-start" [] a = "end" -> "flex-end"
      [] a = "center" -> "center" [] OTHER -> a

DefaultGap == 8

\* css_styles of a container node
ContainerStyles(node) ==
    LET direction == Get(node, "direction", "row")
        gap == Get(node, "gap", DefaultGap)
        padding == Get(node, "padding", 0)
        background_color == GetOpt(node, "backgroundColor")
        border_radius == GetOpt(node, "borderRadius")
        align_main == GetOpt(node, "alignMain")
        align_cross == GetOpt(node, "alignCross")
    IN  << <<"display", "flex">>,
           <<"flex-direction", IF direction = "col" THEN "column" ELSE "row">> >>
        \o (IF gap # 0 THEN << <<"gap", gap>> >> ELSE <<>>)
        \o (IF padding # 0 THEN << <<"padding", padding>> >> ELSE <<>>)
        \o SizeStyles(GetOpt(node, "flex"), GetOpt(node, "width"), GetOpt(node, "height"))
        \o (IF Truthy(background_color)
            THEN << <<"background-color", background_color[1]>> >> ELSE <<>>)
        \o (IF border_radius # None
            THEN << <<"border-radius", border_radius[1]>> >> ELSE <<>>)
        \o (IF Truthy(align_main)
            THEN << <<"justify-content", AlignMainMap(align_main[1])>> >> ELSE <<>>)
        \o (IF Truthy(align_cross)
            THEN << <<"align-items", AlignCrossMap(align_cross[1])>> >> ELSE <<>>)

\* icon_map.get(name, "fas fa-question"), the table cut to the names used
map_to_icon_class(name) ==
    CASE name = Some("sf:gear") -> "fas fa-cog"
      [] name = Some("sf:heart.fill") -> "fas fa-heart"
      [] name = Some("lu:LuStar") -> "fas fa-star"
      [] OTHER -> "fas fa-question"

\* What a renderer did: the lines and the scripts it appended
Rendered(ls, ss) == [lines |-> ls, scripts |-> ss]

render_text_component(props, content, depth, flex, w, h) ==
    LET text_content == IF Truthy(content) THEN content[1]
                        ELSE IF Truthy(GetOpt(props, "content")) THEN props.content
                        ELSE ""
    IN  Rendered(<< [depth |-> depth, el |-> "div", text |-> text_content,
                     fontSize |-> Get(props, "fontSize", 14),
                     style |-> SizeStyles(flex, w, h)] >>, <<>>)

\* Mutant: the script looks the button up under the bare prefix.
render_button_component_PrefixId(props, depth, flex, w, h, button_id) ==
    Rendered(<< [depth |-> depth, el |-> "div", id |-> button_id, role |-> "button",
                 style |-> SizeStyles(flex, w, h)],
                [depth |-> depth + 1, el |-> "span", text |-> "Button"],
                [depth |-> depth, el |-> "/div"] >>,
             << [kind |-> "button", id |-> <<button_id[1], 0>>] >>)

render_button_component(props, depth, flex, w, h, button_id) ==
    LET icon == GetOpt(props, "icon")
        content == GetOpt(props, "content")
        inner == IF Truthy(icon)
                 THEN [depth |-> depth + 1, el |-> "i", class |-> map_to_icon_class(icon)]
                 ELSE IF Truthy(content)
                 THEN [depth |-> depth + 1, el |-> "span", text |-> content[1]]
                 ELSE [depth |-> depth + 1, el |-> "span", text |-> "Button"]
    IN  Rendered(<< [depth |-> depth, el |-> "div", id |-> button_id, role |-> "button",
                     style |-> SizeStyles(flex, w, h)],
                    inner,
                    [depth |-> depth, el |-> "/div"] >>,
                 << [kind |-> "button", id |-> button_id] >>)

render_icon_component(props, depth, flex, w, h) ==
    Rendered(<< [depth |-> depth, el |-> "i",
                 class |-> map_to_icon_class(GetOpt(props, "name")),
                 size |-> Get(props, "size", 20),
                 style |-> SizeStyles(flex, w, h)] >>, <<>>)

render_image_component(props, depth, flex, w, h) ==
    Rendered(<< [depth |-> depth, el |-> "img", src |-> GetOpt(props, "src"),
                 alt |-> Get(props, "alt", ""),
                 style |-> SizeStyles(flex, w, h)] >>, <<>>)

render_checkbox_component(props, depth, flex, w, h) ==
    LET checked == Get(props, "checked", FALSE)
    IN  Rendered(<< [depth |-> depth, el |-> "div",
                     text |-> IF checked THEN "checkmark" ELSE "",
                     background |-> IF checked THEN "#007AFF" ELSE "white",
                     style |-> SizeStyles(flex, w, h)] >>, <<>>)

render_divider_component(props, depth, flex, w, h) ==
    LET orientation == Get(props, "orientation", "horizontal")
        thickness == Get(props, "thickness", 1)
    IN  Rendered(<< [depth |-> depth, el |-> "div", text |-> "",
                     style |->
                        << <<IF orientation = "horizontal" THEN "height" ELSE "width",
                             thickness>> >>
                        \o SizeStyles(flex,
                                      IF orientation = "vertical" THEN w ELSE None,
                                      IF orientation = "horizontal" THEN h ELSE None)] >>,
                 <<>>)

render_indicator_component(props, depth, flex, w, h) ==
    Rendered(<< [depth |-> depth, el |-> "div", text |-> "",
                 size |-> Get(props, "size", 8),
                 style |-> SizeStyles(flex, w, h)] >>, <<>>)

\* Mutant: the generated identifier also lands in the inner bar's markup.
render_progress_bar_component_Stamped(props, depth, flex, w, h, container_id) ==
    Rendered(<< [depth |-> depth, el |-> "div", id |-> container_id,
                 style |-> SizeStyles(flex, w, h)],
                [depth |-> depth + 1, el |-> "div",
                 widthPercent |-> Get(props, "progress", 50),
                 class |-> container_id],
                [depth |-> depth, el |-> "/div"] >>, <<>>)

\* progress is in hundredths; the inner width is progress * 100 percent
render_progress_bar_component(props, depth, flex, w, h, container_id) ==
    Rendered(<< [depth |-> depth, el |-> "div", id |-> container_id,
                 style |-> SizeStyles(flex, w, h)],
                [depth |-> depth + 1, el |-> "div",
                 widthPercent |-> Get(props, "progress", 50)],
                [depth |-> depth, el |-> "/div"] >>, <<>>)

\* Mutant: the percentage is used as given, without the clamp.
render_progress_ring_component_NoClamp(props, depth, flex, w, h, progress_ring_id) ==
    LET percentage == Get(props, "percentage", 0)
        size == Get(props, "size", 80)
        stroke_width == Get(props, "strokeWidth", 6)
        icon_name == GetOpt(props, "iconName")
        content == GetOpt(props, "content")
        normalized_percentage == percentage
        circumference == size - stroke_width
        stroke_dashoffset100 == 100 * circumference - normalized_percentage * circumference
        overlay ==
            IF Truthy(icon_name) \/ Truthy(content)
            THEN << [depth |-> depth + 1, el |-> "div"],
                    IF Truthy(icon_name)
                    THEN [depth |-> depth + 2, el |-> "i",
                          class |-> map_to_icon_class(icon_name)]
                    ELSE [depth |-> depth + 2, el |-> "span", text |-> content[1]],
                    [depth |-> depth + 1, el |-> "/div"] >>
            ELSE <<>>
    IN  Rendered(
            << [depth |-> depth, el |-> "div", id |-> progress_ring_id,
                style |-> SizeStyles(flex, w, h)],
               [depth |-> depth + 1, el |-> "svg", size |-> size],
               [depth |-> depth + 2, el |-> "circle", strokeWidth |-> stroke_width],
               [depth |-> depth + 2, el |-> "circle",
                id |-> <<progress_ring_id, "progress">>,
                strokeWidth |-> stroke_width,
                dasharrayPi |-> circumference,
                dashoffsetPi100 |-> stroke_dashoffset100],
               [depth |-> depth + 1, el |-> "/svg"] >>
            \o overlay
            \o << [depth |-> depth, el |-> "/div"] >>,
            << [kind |-> "progressring", id |-> progress_ring_id,
                targetOffsetPi100 |-> stroke_dashoffset100,
                circumferencePi |-> circumference,
                clampLow |-> 0, clampHigh |-> 100] >>)

\* Lengths on the ring are multiples of pi: circumference = 2 * pi * radius
\* = pi * (size - stroke_width); the offset is kept in hundredths of pi.
render_progress_ring_component(props, depth, flex, w, h, progress_ring_id) ==
    LET percentage == Get(props, "percentage", 0)
        size == Get(props, "size", 80)
        stroke_width == Get(props, "strokeWidth", 6)
        icon_name == GetOpt(props, "iconName")
        content == GetOpt(props, "content")
        normalized_percentage == Min(Max(percentage, 0), 100)
        circumference == size - stroke_width
        stroke_dashoffset100 == 100 * circumference - normalized_percentage * circumference
        overlay ==
            IF Truthy(icon_name) \/ Truthy(content)
            THEN << [depth |-> depth + 1, el |-> "div"],
                    IF Truthy(icon_name)
                    THEN [depth |-> depth + 2, el |-> "i",
                          class |-> map_to_icon_class(icon_name)]
                    ELSE [depth |-> depth + 2, el |-> "span", text |-> content[1]],
                    [depth |-> depth + 1, el |-> "/div"] >>
            ELSE <<>>
    IN  Rendered(
            << [depth |-> depth, el |-> "div", id |-> progress_ring_id,
                style |-> SizeStyles(flex, w, h)],
               [depth |-> depth + 1, el |-> "svg", size |-> size],
               [depth |-> depth + 2, el |-> "circle", strokeWidth |-> stroke_width],
               [depth |-> depth + 2, el |-> "circle",
                id |-> <<progress_ring_id, "progress">>,
                strokeWidth |-> stroke_width,
                dasharrayPi |-> circumference,
                dashoffsetPi100 |-> stroke_dashoffset100],
               [depth |-> depth + 1, el |-> "/svg"] >>
            \o overlay
            \o << [depth |-> depth, el |-> "/div"] >>,
            << [kind |-> "progressring", id |-> progress_ring_id,
                targetOffsetPi100 |-> stroke_dashoffset100,
                circumferencePi |-> circumference,
                clampLow |-> 0, clampHigh |-> 100] >>)

\* The emitted progressRing.updateProgress(newPercentage): the new
\* strokeDashoffset, in hundredths of pi
updateProgress(script, newPercentage) ==
    LET normalizedPercentage ==
            Min(Max(newPercentage, script.clampLow), script.clampHigh)
    IN  100 * script.circumferencePi - normalizedPercentage * script.circumferencePi

render_sparkline_component(props, depth, flex, w, h, counter) ==
    LET sparkline_id == <<"sparkline", counter.sparkline>>
    IN  Rendered(<< [depth |-> depth, el |-> "canvas", id |-> sparkline_id,
                     style |-> SizeStyles(flex, w, h)] >>,
                 << [kind |-> "sparkline", id |-> sparkline_id,
                     data |-> Get(props, "data", <<>>)] >>)

\* Mutant: the script draws whenever there is a point.
sparkline_script_DrawsOnePoint(script) ==
    LET data == script.data
    IN  <<"getContext", "scale", "clearRect">>
        \o (IF Len(data) < 1 THEN <<>>
            ELSE <<"beginPath">>
                 \o [index \in DOMAIN data |-> IF index = 1 THEN "moveTo" ELSE "lineTo"]
                 \o <<"stroke">>)

\* The canvas calls the emitted sparkline script makes when it runs on its
\* canvas: context setup and clearing, `if (data.length < 2) return;`, then
\* the polyline
sparkline_script(script) ==
    LET data == script.data
    IN  <<"getContext", "scale", "clearRect">>
        \o (IF Len(data) < 2 THEN <<>>
            ELSE <<"beginPath">>
                 \o [index \in DOMAIN data |-> IF index = 1 THEN "moveTo" ELSE "lineTo"]
                 \o <<"stroke">>)

generate_chart_option(chart_type, props) ==
    CASE chart_type = "LineChart" ->
            [series |-> "line", labels |-> Get(props, "labels", <<>>),
             data |-> Get(props, "data", <<>>)]
      [] chart_type = "BarChart" ->
            [series |-> "bar", labels |-> Get(props, "labels", <<>>),
             data |-> Get(props, "data", <<>>)]
      [] chart_type = "PieChart" ->
            [series |-> "pie", data |-> Get(props, "data", <<>>),
             radius |-> IF Get(props, "innerRadius", FALSE) THEN <<50, 70>> ELSE <<70>>]
      [] OTHER -> [series |-> "none"]

render_chart_component(chart_type, props, depth, flex, w, h, counter) ==
    LET chart_id == <<"chart", counter.chart>>
    IN  Rendered(<< [depth |-> depth, el |-> "div", id |-> chart_id,
                     style |-> SizeStyles(flex, w, h)] >>,
                 << [kind |-> "chart", id |-> chart_id,
                     option |-> generate_chart_option(chart_type, props)] >>)

\* Mutant: a content that is present but empty is used as the text.
render_generic_component_AnyContent(component_name, props, content, depth, flex, w, h) ==
    LET component_content == IF content # None THEN content[1] ELSE component_name
    IN  Rendered(<< [depth |-> depth, el |-> "div", text |-> component_content,
                     style |-> SizeStyles(flex, w, h)] >>, <<>>)

render_generic_component(component_name, props, content, depth, flex, w, h) ==
    LET component_content == IF Truthy(content) THEN content[1] ELSE component_name
    IN  Rendered(<< [depth |-> depth, el |-> "div", text |-> component_content,
                     style |-> SizeStyles(flex, w, h)] >>, <<>>)

ChartComponents == {"LineChart", "BarChart", "StackedBarChart", "RadarChart", "PieChart"}

UsesContentProp == {"Button", "ProgressRing"}

UsesUniqueId == {"Button", "ProgressBar", "ProgressRing"}

\* merged_props = dict(props); merged_props["content"] = content
MergedProps(node) ==
    LET props == Get(node, "props", [k \in {} |-> k])
        content == GetOpt(node, "content")
    IN  IF Truthy(content) /\ node.component \in UsesContentProp
        THEN [content |-> content[1]] @@ props
        ELSE props

\* The tree with the content of the leaf written into its props mapping
RECURSIVE WithContentInProps(_, _)
WithContentInProps(d, node) ==
    IF d = node
    THEN [node EXCEPT !.props = [content |-> node.content] @@ @]
    ELSE IF "children" \in DOMAIN d
    THEN [d EXCEPT !.children = [k \in DOMAIN @ |-> WithContentInProps(@[k], node)]]
    ELSE d

\* Mutant: merged_props = props, so the merge writes into the input's mapping.
InputAfterMerge_Aliased(dsl, node) ==
    IF Truthy(GetOpt(node, "content")) /\ node.component \in UsesContentProp
       /\ "props" \in DOMAIN node
    THEN [dsl EXCEPT !.widget.root = WithContentInProps(@, node)]
    ELSE dsl

\* The input tree after render_node merged the content of a leaf:
\* merged_props = dict(props) is a new mapping, and
\* merged_props["content"] = content writes into it, not into node["props"]
InputAfterMerge(dsl, node) == dsl

\* The dispatch of render_node on a leaf with a component; uid is the value
\* unique_id returns when the renderer calls it.
RenderLeafComponent(node, depth, counter, uid) ==
    LET name == node.component
        props == MergedProps(node)
        flex == GetOpt(node, "flex")
        w == GetOpt(node, "width")
        h == GetOpt(node, "height")
        content == GetOpt(node, "content")
    IN  CASE name = "Text" -> render_text_component(props, content, depth, flex, w, h)
          [] name = "Button" ->
                render_button_component(props, depth, flex, w, h, <<"button", uid>>)
          [] name = "Icon" -> render_icon_component(props, depth, flex, w, h)
          [] name = "Image" -> render_image_component(props, depth, flex, w, h)
          [] name = "Checkbox" -> render_checkbox_component(props, depth, flex, w, h)
          [] name = "Divider" -> render_divider_component(props, depth, flex, w, h)
          [] name = "Indicator" -> render_indicator_component(props, depth, flex, w, h)
          [] name = "ProgressBar" ->
                render_progress_bar_component(props, depth, flex, w, h, <<"progress", uid>>)
          [] name = "ProgressRing" ->
                render_progress_ring_component(props, depth, flex, w, h,
                                               <<"progressring", uid>>)
          [] name = "Sparkline" ->
                render_sparkline_component(props, depth, flex, w, h, counter)
          [] name \in ChartComponents ->
                render_chart_component(name, props, depth, flex, w, h, counter)
          [] OTHER ->
                render_generic_component(name, props, content, depth, flex, w, h)

\* component_counter after the renderer of the component ran
CounterAfter(name, counter) ==
    IF name = "Sparkline" THEN [counter EXCEPT !.sparkline = @ + 1]
    ELSE IF name \in ChartComponents THEN [counter EXCEPT !.chart = @ + 1]
    ELSE counter

\* Mutant: an empty root passes the root check.
HasRoot_KeyOnly(dsl) == Has(dsl, "widget") /\ Has(dsl.widget, "root")

\* not widget_dsl.get("widget", {}).get("root") is false
HasRoot(dsl) ==
    /\ Has(dsl, "widget")
    /\ Has(dsl.widget, "root")
    /\ DOMAIN dsl.widget.root # {}

\* Mutant: only a missing key counts, an empty name passes.
MissingComponent_KeyOnly(node) == ~Has(node, "component")

\* if not component_name
MissingComponent(node) == ~Truthy(GetOpt(node, "component"))

----------------------------------------------------------------------------
(* Inputs of the inference engine *)

\* Bounds of the model
MaxChildren == 3

\* Device metrics of the runs: 720x1440 physical, 360x720 virtual pixels
Physical == <<720, 1440>>

Virtual == <<360, 720>>

\* All sequences over S of length 0..n
RECURSIVE SeqsUpTo(_, _)
SeqsUpTo(S, n) ==
    IF n = 0 THEN {<<>>}
    ELSE LET shorter == SeqsUpTo(S, n - 1)
         IN  shorter \cup {Append(q, x) : q \in {r \in shorter : Len(r) = n - 1}, x \in S}

TypeText == <<"t", "e", "x", "t">>

TypeView == <<"v", "i", "e", "w">>

HintRow == <<"R", "o", "w">>

HintColumn == <<"c", "o", "l", "u", "m", "n">>

\* Main/cross extents <<leading, trailing>> of the children of the geometry
\* runs; the last X extent is inverted (right < left).
XExtents == {<<0, 10>>, <<14, 20>>, <<33, 40>>, <<25, 5>>}

YExtents == {<<0, 8>>, <<11, 18>>, <<22, 30>>}

GeomChildren ==
    {[type |-> TypeText, text |-> "a", bounds |-> <<x[1], y[1], x[2], y[2]>>] :
        x \in XExtents, y \in YExtents}
    \cup {[type |-> TypeText, text |-> "a"]}

\* Container bounds of the geometry runs: a small one (tolerance 8), a large
\* one (tolerance 8% of the size) and an inverted one.
GeomContainerBounds == {<<0, 0, 40, 30>>, <<-110, -100, 50, 40>>, <<40, 30, 0, 0>>}

GeomLayouts ==
    {[type |-> TypeView, direction |-> d, bounds |-> b, subNodes |-> subs] :
        d \in {HintRow, HintColumn}, b \in GeomContainerBounds,
        subs \in SeqsUpTo(GeomChildren, MaxChildren)}

\* A container whose only child has exactly the container's bounds
FillCoords == {0, 10, 17, 40, 200}

FillLayouts ==
    {[type |-> TypeView, direction |-> d, bounds |-> <<l, t, r, b>>,
      subNodes |-> <<[type |-> TypeText, text |-> "a", bounds |-> <<l, t, r, b>>]>>] :
        d \in {HintRow, HintColumn},
        l \in FillCoords, t \in FillCoords, r \in FillCoords, b \in FillCoords}

----------------------------------------------------------------------------
(* Inputs of the single inference rules: flex, direction hint, font size *)

\* A parent with one or two children that are containers (type view, or no
\* type and no bounds) or Text leaves.  Parent main sizes 40/16 (row/col),
\* 40/48, and 0/30; child sizes include half, a sixteenth and more than the
\* parent's size, and an inverted extent.
FlexParentBounds == {<<0, 0, 40, 16>>, <<10, 10, 50, 58>>, <<7, 0, 7, 30>>}

FlexChildBounds ==
    {<<x[1], y[1], x[2], y[2]>> :
        x \in {<<0, 20>>, <<0, 40>>, <<5, 8>>, <<30, 10>>, <<0, 13>>},
        y \in {<<0, 8>>, <<0, 1>>, <<0, 3>>, <<0, 24>>}}

FlexChildren ==
    {[type |-> t, bounds |-> b] : t \in {TypeView, TypeText}, b \in FlexChildBounds}
    \cup {[text |-> "untyped"]}
    \cup {[type |-> TypeText, bounds |-> <<0, 0, 20, 8>>,
           subNodes |-> <<[type |-> TypeView, bounds |-> <<0, 0, 10, 2>>]>>]}

FlexLayouts ==
    {[type |-> TypeView, direction |-> d, bounds |-> b, subNodes |-> <<c>>] :
        d \in {HintRow, HintColumn}, b \in FlexParentBounds, c \in FlexChildren}
    \cup {[type |-> TypeView, direction |-> d, bounds |-> <<0, 0, 40, 16>>,
           subNodes |-> <<[type |-> TypeText, bounds |-> <<0, 0, 20, 8>>], c>>] :
            d \in {HintRow, HintColumn}, c \in FlexChildren}

\* Direction hints: recognised words in some letter case, hints holding two
\* of them, unrecognised strings and the empty string
DirectionHints ==
    { <<>>,
      <<"r", "o", "w">>,
      <<"R", "O", "W">>,
      <<"c", "o", "l">>,
      <<"c", "o", "l", "u", "m", "n">>,
      <<"S", "t", "a", "c", "k">>,
      <<"g", "r", "i", "d">>,
      <<"r", "o", " ", "w">>,
      <<"w", "o", "r">>,
      <<"c", "o", "l", "R", "o", "w">>,
      <<"R", "o", "w", "S", "t", "a", "c", "k">>,
      <<"s", "t", "a", "c", "k", "_", "r", "o", "w", "s">>,
      <<"a", "r", "r", "o", "w">> }

\* A container with a hint (or none), with a container child and its hint
HintLayouts ==
    {[type |-> TypeView, direction |-> h, bounds |-> <<0, 0, 40, 30>>,
      subNodes |-> <<[type |-> TypeText, text |-> "a", bounds |-> <<0, 0, 10, 8>>],
                     [type |-> TypeView, direction |-> g, bounds |-> <<14, 0, 20, 8>>]>>] :
        h \in DirectionHints, g \in DirectionHints}
    \cup {[type |-> TypeView, bounds |-> <<0, 0, 40, 30>>,
           subNodes |-> <<[type |-> TypeView, direction |-> g]>>] : g \in DirectionHints}
    \cup {[type |-> TypeView, direction |-> h, bounds |-> <<0, 0, 40, 30>>] :
            h \in DirectionHints}

\* Text heights 0..MaxHeight and line counts 0..MaxLines
MaxHeight == 60

MaxLines == 3

FontLayouts ==
    {[type |-> TypeText, text |-> "a", bounds |-> <<0, 2, 10, 2 + h>>, num_line |-> n] :
        h \in 0..MaxHeight, n \in 0..MaxLines}
    \cup {[type |-> TypeText, text |-> "a", bounds |-> <<0, 2, 10, 2 + h>>] :
            h \in 0..MaxHeight}

\* <<physical_size, virtual_size>>: scale 2 by both axes, 3 by the width (2
\* by the height), 3 by the height (virtual width 0), 1 (both virtual sizes
\* 0), 3/4 by the width
DeviceSizes ==
    { <<Physical, Virtual>>,
      <<(<<1080, 1920>>), (<<360, 960>>)>>,
      <<(<<720, 1440>>), (<<0, 480>>)>>,
      <<(<<720, 1440>>), (<<0, 0>>)>>,
      <<(<<360, 720>>), (<<480, 960>>)>> }

----------------------------------------------------------------------------
(* Inputs of the whole pipeline: layout trees of up to MaxNodes nodes *)

MaxNodes == 3

\* The nodes of the layout trees, without their children: every leaf type in
\* some letter case, a type that is no leaf type, and a node without type
NodeKinds ==
    { [type |-> TypeText, bounds |-> <<0, 0, 40, 24>>, text |-> "Hi"],
      [type |-> <<"P", "a", "r", "a", "g", "r", "a", "p", "h">>,
       bounds |-> <<0, 30, 40, 78>>, text |-> "Lorem", num_line |-> 2],
      [type |-> <<"I", "C", "O", "N">>, bounds |-> <<0, 0, 24, 24>>,
       content |-> "sf:gear"],
      [type |-> <<"i", "m", "a", "g", "e">>, bounds |-> <<10, 30, 30, 40>>],
      [type |-> TypeView, bounds |-> <<0, 0, 40, 80>>],
      [text |-> "untyped"] }

RECURSIVE LayoutTrees(_)
RECURSIVE LayoutForests(_)

\* The sequences of trees with n nodes in all
LayoutForests(n) ==
    IF n = 0 THEN {<<>>}
    ELSE UNION {{<<t>> \o f : t \in LayoutTrees(k), f \in LayoutForests(n - k)} :
                  k \in 1..n}

\* The trees with exactly n nodes
LayoutTrees(n) ==
    {kind : kind \in NodeKinds, f \in LayoutForests(n - 1) \cap {<<>>}}
    \cup {[subNodes |-> f] @@ kind :
            kind \in NodeKinds, f \in LayoutForests(n - 1) \ {<<>>}}
    \cup {[subNodes |-> f, direction |-> HintRow] @@ kind :
            kind \in NodeKinds, f \in LayoutForests(n - 1) \ {<<>>}}

StructLayouts == UNION {LayoutTrees(n) : n \in 1..MaxNodes}

----------------------------------------------------------------------------
(* Inputs of the compiler alone: widget specs that no converter produced *)

MaxDslChildren == 2

NumIds == 2

EmptyDict == [k \in {} |-> k]

\* ProgressRing percentages below, at and above the range 0..100
RingPercentages == {-20, -1, 0, 1, 40, 99, 100, 101, 150}

RingLeaves ==
    {[type |-> "leaf", component |-> "ProgressRing", props |-> [percentage |-> p]] :
        p \in RingPercentages}
    \cup {[type |-> "leaf", component |-> "ProgressRing"],
          [type |-> "leaf", component |-> "ProgressRing",
           props |-> [percentage |-> 150, size |-> 40, strokeWidth |-> 4]]}

\* Sparklines with no data, no points, one point and two points
SparklineLeaves ==
    {[type |-> "leaf", component |-> "Sparkline"],
     [type |-> "leaf", component |-> "Sparkline", props |-> [data |-> <<>>]],
     [type |-> "leaf", component |-> "Sparkline", props |-> [data |-> <<7>>], flex |-> 1],
     [type |-> "leaf", component |-> "Sparkline", props |-> [data |-> <<2, 9>>]]}

\* One leaf of every component of the catalogue, generic names, leaves
\* without a component, and nodes that are neither container nor leaf
DslLeaves ==
    { [type |-> "leaf", component |-> "Text", content |-> "Hi"],
      [type |-> "leaf", component |-> "Text", props |-> [content |-> "Yo", fontSize |-> 12]],
      [type |-> "leaf", component |-> "Button", content |-> "Go"],
      [type |-> "leaf", component |-> "Button", props |-> [icon |-> "sf:gear"]],
      [type |-> "leaf", component |-> "Button"],
      [type |-> "leaf", component |-> "Icon", props |-> [name |-> "sf:heart.fill"]],
      [type |-> "leaf", component |-> "Image", props |-> [src |-> ""], width |-> 20],
      [type |-> "leaf", component |-> "Checkbox", props |-> [checked |-> TRUE]],
      [type |-> "leaf", component |-> "Divider", height |-> 2],
      [type |-> "leaf", component |-> "Indicator"],
      [type |-> "leaf", component |-> "ProgressBar", props |-> [progress |-> 150]],
      [type |-> "leaf", component |-> "ProgressRing", props |-> [percentage |-> 150]],
      [type |-> "leaf", component |-> "ProgressRing", content |-> "75%",
       props |-> [percentage |-> 75, size |-> 40, strokeWidth |-> 4]],
      [type |-> "leaf", component |-> "Sparkline", props |-> [data |-> <<5>>]],
      [type |-> "leaf", component |-> "Sparkline", props |-> [data |-> <<1, 3, 2>>]],
      [type |-> "leaf", component |-> "LineChart", props |-> [data |-> <<1, 2>>]],
      [type |-> "leaf", component |-> "BarChart"],
      [type |-> "leaf", component |-> "StackedBarChart"],
      [type |-> "leaf", component |-> "RadarChart"],
      [type |-> "leaf", component |-> "PieChart", props |-> [innerRadius |-> TRUE]],
      [type |-> "leaf", component |-> "Gauge", content |-> "42"],
      [type |-> "leaf", component |-> "Gauge", content |-> ""],
      [type |-> "leaf", component |-> "Gauge", flex |-> 1],
      [type |-> "leaf"],
      [type |-> "leaf", component |-> "", content |-> "x"],
      [type |-> "spacer", children |-> <<[type |-> "leaf"]>>],
      [component |-> "Text", content |-> "typeless"] }
    \cup RingLeaves \cup SparklineLeaves

\* The nodes put below a container
DslChildren ==
    { [type |-> "leaf", component |-> "Text", content |-> "Hi"],
      [type |-> "leaf", component |-> "Button", content |-> "Go"],
      [type |-> "leaf", component |-> "Gauge"],
      [type |-> "leaf", component |-> "Sparkline", props |-> [data |-> <<5>>]],
      [type |-> "leaf", component |-> "PieChart"],
      [type |-> "leaf"],
      [type |-> "spacer", children |-> <<[type |-> "leaf"]>>],
      [type |-> "group", children |-> <<[type |-> "leaf", component |-> "PieChart"],
                                        [type |-> "leaf", component |-> "Button"]>>],
      [children |-> <<[type |-> "leaf"]>>],
      [type |-> "container", direction |-> "row", gap |-> 0,
       children |-> <<[type |-> "leaf", component |-> "BarChart"]>>],
      [type |-> "container", children |-> <<[type |-> "leaf", content |-> "x"]>>] }

DslContainers ==
    {[type |-> "container", direction |-> "col", gap |-> 4, alignMain |-> "between",
      alignCross |-> "center", children |-> kids] :
        kids \in SeqsUpTo(DslChildren, MaxDslChildren)}
    \cup {[type |-> "container", direction |-> "row", gap |-> 0, alignMain |-> "end",
           flex |-> 1, padding |-> 2] }

\* A mapping without the key, or with the key and one of the values
OptField(key, values) == {EmptyDict} \cup {[k \in {key} |-> v] : v \in values}

\* Childless containers over the directions, gaps and alignments
StyledContainers ==
    {[type |-> "container"] @@ d @@ g @@ m @@ c :
        d \in OptField("direction", {"row", "col", "column"}),
        g \in OptField("gap", {0, 12}),
        m \in OptField("alignMain", {"start", "end", "center", "between", ""}),
        c \in OptField("alignCross", {"start", "end", "center", "between"})}

GivenSpecs ==
    {[widget |-> [root |-> r]] : r \in DslLeaves \cup DslContainers \cup StyledContainers}
    \cup { EmptyDict,
           [widget |-> EmptyDict],
           [widget |-> [padding |-> 0]],
           [widget |-> [root |-> EmptyDict]],
           [widget |-> [root |-> EmptyDict, padding |-> 0, width |-> 100]] }

----------------------------------------------------------------------------
(* The program *)

NoLayout == <<>>

NoDsl == <<>>

NoHtml == <<>>

EmptyCounter == [chart |-> 0, sparkline |-> 0]

\* layout_json_to_widget_dsl(layout_json, physical_size, virtual_size)
Convert ==
    /\ pc = "init"
    /\ LET result == layout_json_to_widget_dsl(layout_json, physical_size, virtual_size)
       IN  IF IsRaised(result)
           THEN /\ error' = result.raised
                /\ pc' = "failed"
                /\ widget_dsl' = NoDsl
           ELSE /\ error' = ""
                /\ pc' = "ready"
                /\ widget_dsl' = result
    /\ UNCHANGED <<layout_json, physical_size, virtual_size, stack, lines, scripts,
                   component_counter, html>>

InitWith(layouts) ==
    /\ layout_json \in layouts
    /\ physical_size = Physical
    /\ virtual_size = Virtual
    /\ widget_dsl = NoDsl
    /\ pc = "init"
    /\ error = ""
    /\ stack = <<>>
    /\ lines = <<>>
    /\ scripts = <<>>
    /\ component_counter = EmptyCounter
    /\ html = NoHtml

\* The inference engine alone, on the geometry inputs
InitGeom == InitWith(GeomLayouts \cup FillLayouts)

NextGeom == Convert

SpecGeom == InitGeom /\ [][NextGeom]_vars

\* The inference engine alone, on the inputs of the single rules
InitInfer ==
    /\ \/ /\ layout_json \in FontLayouts
          /\ \E sizes \in DeviceSizes :
                /\ physical_size = sizes[1]
                /\ virtual_size = sizes[2]
       \/ /\ layout_json \in FlexLayouts \cup HintLayouts
          /\ physical_size = Physical
          /\ virtual_size = Virtual
    /\ widget_dsl = NoDsl
    /\ pc = "init"
    /\ error = ""
    /\ stack = <<>>
    /\ lines = <<>>
    /\ scripts = <<>>
    /\ component_counter = EmptyCounter
    /\ html = NoHtml

NextInfer == Convert

SpecInfer == InitInfer /\ [][NextInfer]_vars

----------------------------------------------------------------------------
(* compile_widget_dsl_to_html(widget_dsl), one step per call of render_node *)

NodeItem(node, depth) == [op |-> "node", node |-> node, depth |-> depth]

CloseItem(depth) == [op |-> "close", depth |-> depth]

Top == Head(stack)

AtNode == pc = "render" /\ stack # <<>> /\ Top.op = "node"

NodeType(node) == Get(node, "type", "")

\* The root check fails: raise ValueError("Invalid widget spec: missing widget.root")
CompileInvalidSpec ==
    /\ pc = "ready"
    /\ ~HasRoot(widget_dsl)
    /\ error' = "InvalidSpec"
    /\ pc' = "failed"
    /\ UNCHANGED <<layout_json, physical_size, virtual_size, widget_dsl, stack, lines,
                   scripts, component_counter, html>>

\* The root check passes: the lists and the counters are created and
\* render_node(widget_dsl["widget"]["root"], 0) is called
CompileStart ==
    /\ pc = "ready"
    /\ HasRoot(widget_dsl)
    /\ lines' = <<>>
    /\ scripts' = <<>>
    /\ component_counter' = EmptyCounter
    /\ stack' = <<NodeItem(widget_dsl.widget.root, 0)>>
    /\ pc' = "render"
    /\ UNCHANGED <<layout_json, physical_size, virtual_size, widget_dsl, error, html>>

\* Mutant: the children are visited last to first.
RenderContainer_ChildrenReversed ==
    /\ AtNode
    /\ NodeType(Top.node) = "container"
    /\ LET node == Top.node
           depth == Top.depth
           children == Get(node, "children", <<>>)
           n == Len(children)
       IN  /\ lines' = Append(lines, [depth |-> depth, el |-> "div",
                                      style |-> ContainerStyles(node)])
           /\ stack' = [i \in DOMAIN children |-> NodeItem(children[n + 1 - i], depth + 1)]
                       \o <<CloseItem(depth)>> \o Tail(stack)
    /\ UNCHANGED <<layout_json, physical_size, virtual_size, widget_dsl, pc, error,
                   scripts, component_counter, html>>

\* render_node on a container: the opening line, then the children in order,
\* then the closing line
RenderContainer ==
    /\ AtNode
    /\ NodeType(Top.node) = "container"
    /\ LET node == Top.node
           depth == Top.depth
           children == Get(node, "children", <<>>)
       IN  /\ lines' = Append(lines, [depth |-> depth, el |-> "div",
                                      style |-> ContainerStyles(node)])
           /\ stack' = [i \in DOMAIN children |-> NodeItem(children[i], depth + 1)]
                       \o <<CloseItem(depth)>> \o Tail(stack)
    /\ UNCHANGED <<layout_json, physical_size, virtual_size, widget_dsl, pc, error,
                   scripts, component_counter, html>>

\* The children of a container are done: write(f"{indent}</div>")
RenderClose ==
    /\ pc = "render"
    /\ stack # <<>>
    /\ Top.op = "close"
    /\ lines' = Append(lines, [depth |-> Top.depth, el |-> "/div"])
    /\ stack' = Tail(stack)
    /\ UNCHANGED <<layout_json, physical_size, virtual_size, widget_dsl, pc, error,
                   scripts, component_counter, html>>

\* render_node on a leaf with a component: its renderer runs
RenderLeaf ==
    /\ AtNode
    /\ NodeType(Top.node) = "leaf"
    /\ ~MissingComponent(Top.node)
    /\ \E uid \in IF Top.node.component \in UsesUniqueId THEN 1..NumIds ELSE {0} :
          LET done == RenderLeafComponent(Top.node, Top.depth, component_counter, uid)
          IN  /\ lines' = lines \o done.lines
              /\ scripts' = scripts \o done.scripts
    /\ component_counter' = CounterAfter(Top.node.component, component_counter)
    /\ widget_dsl' = InputAfterMerge(widget_dsl, Top.node)
    /\ stack' = Tail(stack)
    /\ UNCHANGED <<layout_json, physical_size, virtual_size, pc, error, html>>

\* render_node on a leaf without a component:
\* raise ValueError("Invalid leaf node: missing component"); the exception
\* leaves every render_node call and the compile call
RenderInvalidLeaf ==
    /\ AtNode
    /\ NodeType(Top.node) = "leaf"
    /\ MissingComponent(Top.node)
    /\ error' = "InvalidLeaf"
    /\ pc' = "failed"
    /\ stack' = <<>>
    /\ UNCHANGED <<layout_json, physical_size, virtual_size, widget_dsl, lines, scripts,
                   component_counter, html>>

\* Mutant: a node of another type is passed through to its children.
RenderSkip_VisitsChildren ==
    /\ AtNode
    /\ NodeType(Top.node) \notin {"container", "leaf"}
    /\ LET children == Get(Top.node, "children", <<>>)
       IN  stack' = [i \in DOMAIN children |-> NodeItem(children[i], Top.depth + 1)]
                    \o Tail(stack)
    /\ UNCHANGED <<layout_json, physical_size, virtual_size, widget_dsl, pc, error,
                   lines, scripts, component_counter, html>>

\* render_node on a node that is neither container nor leaf: nothing
RenderSkip ==
    /\ AtNode
    /\ NodeType(Top.node) \notin {"container", "leaf"}
    /\ stack' = Tail(stack)
    /\ UNCHANGED <<layout_json, physical_size, virtual_size, widget_dsl, pc, error,
                   lines, scripts, component_counter, html>>

DefaultBorderRadius == 20

DefaultPadding == 16

WidgetStyles(widget) ==
    << <<"background-color",
         IF Truthy(GetOpt(widget, "backgroundColor")) THEN widget.backgroundColor
         ELSE "#f2f2f7">>,
       <<"border-radius", Get(widget, "borderRadius", DefaultBorderRadius)>>,
       <<"padding", Get(widget, "padding", DefaultPadding)>> >>
    \o SizeStyles(None, GetOpt(widget, "width"), GetOpt(widget, "height"))

\* render_node returned: the document is assembled and returned
CompileFinish ==
    /\ pc = "render"
    /\ stack = <<>>
    /\ html' = [widgetStyles |-> WidgetStyles(widget_dsl.widget),
                structure |-> lines,
                behavior |-> scripts]
    /\ pc' = "done"
    /\ UNCHANGED <<layout_json, physical_size, virtual_size, widget_dsl, error, stack,
                   lines, scripts, component_counter>>

\* A compile call on a given widget spec
InitGiven ==
    /\ layout_json = NoLayout
    /\ physical_size = Physical
    /\ virtual_size = Virtual
    /\ widget_dsl \in GivenSpecs
    /\ pc = "ready"
    /\ error = ""
    /\ stack = <<>>
    /\ lines = <<>>
    /\ scripts = <<>>
    /\ component_counter = EmptyCounter
    /\ html = NoHtml

\* The pipeline on a layout tree, or the compiler on a given spec
Init == InitWith(StructLayouts) \/ InitGiven

Next ==
    \/ Convert
    \/ CompileInvalidSpec
    \/ CompileStart
    \/ RenderContainer
    \/ RenderClose
    \/ RenderLeaf
    \/ RenderInvalidLeaf
    \/ RenderSkip
    \/ CompileFinish

Spec == Init /\ [][Next]_vars

----------------------------------------------------------------------------
(* Two invocations of compile_widget_dsl_to_html whose render_node steps   *)
(* interleave.  widget_dsl, pc, error, stack, lines, scripts,              *)
(* component_counter and html hold one value per invocation: the lists and *)
(* the counter are locals of the call.                                     *)

Calls == {1, 2}

\* Charts and sparklines below one root
MaxCounted == 2

CountedLeaves ==
    { [type |-> "leaf", component |-> "BarChart"],
      [type |-> "leaf", component |-> "PieChart"],
      [type |-> "leaf", component |-> "Sparkline", props |-> [data |-> <<1, 3>>]] }

\* Trees whose leaves call unique_id
IdentifiedSpecs ==
    { [widget |-> [root |-> [type |-> "container", direction |-> "col", gap |-> 4,
                             children |->
                <<[type |-> "leaf", component |-> "Button", content |-> "Go"],
                  [type |-> "leaf", component |-> "ProgressBar"]>>]]],
      [widget |-> [root |-> [type |-> "container", direction |-> "row", gap |-> 0,
                             children |->
                <<[type |-> "leaf", component |-> "ProgressRing",
                   props |-> [percentage |-> 40]],
                  [type |-> "leaf", component |-> "BarChart"]>>]]],
      [widget |-> [root |-> [type |-> "leaf", component |-> "Button"]]] }

\* Layouts that two invocations of layout_json_to_widget_dsl convert
CallLayouts ==
    { [type |-> TypeText, text |-> "a", bounds |-> <<0, 2, 10, 22>>],
      [type |-> TypeView, bounds |-> <<0, 0, 40, 30>>,
       subNodes |-> <<[type |-> TypeText, text |-> "a", bounds |-> <<0, 0, 10, 8>>],
                      [type |-> TypeText, text |-> "b", bounds |-> <<14, 0, 34, 8>>]>>],
      [type |-> TypeView, direction |-> HintColumn, bounds |-> <<0, 0, 40, 30>>,
       subNodes |-> <<[type |-> TypeView, bounds |-> <<0, 12, 40, 20>>],
                      [type |-> TypeText, text |-> "a", bounds |-> <<0, 0, 40, 8>>]>>] }

CountedSpecs ==
    {[widget |-> [root |-> [type |-> "container", direction |-> "row", gap |-> 0,
                            children |-> kids]]] :
        kids \in SeqsUpTo(CountedLeaves, MaxCounted)}
    \cup { [widget |-> EmptyDict],
           [widget |-> [root |-> [type |-> "container", children |->
                <<[type |-> "leaf", component |-> "Sparkline"], [type |-> "leaf"]>>]]],
           [widget |-> [root |-> [type |-> "container", children |->
                <<[type |-> "spacer"], [type |-> "leaf", component |-> "LineChart"]>>]]] }
    \cup IdentifiedSpecs

\* Mutant: one counter object serves every invocation.
CounterSlot_Singleton(i) == 1

\* The counter dict of invocation i: component_counter = {"chart": 0, "sparkline": 0}
\* is created inside the call
CounterSlot(i) == i

CallTop(i) == Head(stack[i])

CallAtNode(i) == pc[i] = "render" /\ stack[i] # <<>> /\ CallTop(i).op = "node"

\* Invocation i of layout_json_to_widget_dsl
CallConvert(i) ==
    /\ pc[i] = "init"
    /\ LET result == layout_json_to_widget_dsl(layout_json[i], physical_size, virtual_size)
       IN  IF IsRaised(result)
           THEN /\ error' = [error EXCEPT ![i] = result.raised]
                /\ pc' = [pc EXCEPT ![i] = "failed"]
                /\ UNCHANGED widget_dsl
           ELSE /\ pc' = [pc EXCEPT ![i] = "ready"]
                /\ widget_dsl' = [widget_dsl EXCEPT ![i] = result]
                /\ UNCHANGED error
    /\ UNCHANGED <<layout_json, physical_size, virtual_size, stack, lines, scripts,
                   component_counter, html>>

CallInvalidSpec(i) ==
    /\ pc[i] = "ready"
    /\ ~HasRoot(widget_dsl[i])
    /\ error' = [error EXCEPT ![i] = "InvalidSpec"]
    /\ pc' = [pc EXCEPT ![i] = "failed"]
    /\ UNCHANGED <<layout_json, physical_size, virtual_size, widget_dsl, stack, lines,
                   scripts, component_counter, html>>

CallStart(i) ==
    /\ pc[i] = "ready"
    /\ HasRoot(widget_dsl[i])
    /\ lines' = [lines EXCEPT ![i] = <<>>]
    /\ scripts' = [scripts EXCEPT ![i] = <<>>]
    /\ component_counter' = [component_counter EXCEPT ![CounterSlot(i)] = EmptyCounter]
    /\ stack' = [stack EXCEPT ![i] = <<NodeItem(widget_dsl[i].widget.root, 0)>>]
    /\ pc' = [pc EXCEPT ![i] = "render"]
    /\ UNCHANGED <<layout_json, physical_size, virtual_size, widget_dsl, error, html>>

CallRenderContainer(i) ==
    /\ CallAtNode(i)
    /\ NodeType(CallTop(i).node) = "container"
    /\ LET node == CallTop(i).node
           depth == CallTop(i).depth
           children == Get(node, "children", <<>>)
       IN  /\ lines' = [lines EXCEPT ![i] =
                          Append(@, [depth |-> depth, el |-> "div",
                                     style |-> ContainerStyles(node)])]
           /\ stack' = [stack EXCEPT ![i] =
                          [j \in DOMAIN children |-> NodeItem(children[j], depth + 1)]
                          \o <<CloseItem(depth)>> \o Tail(@)]
    /\ UNCHANGED <<layout_json, physical_size, virtual_size, widget_dsl, pc, error,
                   scripts, component_counter, html>>

CallRenderClose(i) ==
    /\ pc[i] = "render"
    /\ stack[i] # <<>>
    /\ CallTop(i).op = "close"
    /\ lines' = [lines EXCEPT ![i] = Append(@, [depth |-> CallTop(i).depth, el |-> "/div"])]
    /\ stack' = [stack EXCEPT ![i] = Tail(@)]
    /\ UNCHANGED <<layout_json, physical_size, virtual_size, widget_dsl, pc, error,
                   scripts, component_counter, html>>

CallRenderLeaf(i) ==
    /\ CallAtNode(i)
    /\ NodeType(CallTop(i).node) = "leaf"
    /\ ~MissingComponent(CallTop(i).node)
    /\ LET node == CallTop(i).node
           counter == component_counter[CounterSlot(i)]
       IN  /\ \E uid \in IF node.component \in UsesUniqueId THEN 1..NumIds ELSE {0} :
                 LET done == RenderLeafComponent(node, CallTop(i).depth, counter, uid)
                 IN  /\ lines' = [lines EXCEPT ![i] = @ \o done.lines]
                     /\ scripts' = [scripts EXCEPT ![i] = @ \o done.scripts]
           /\ component_counter' = [component_counter EXCEPT ![CounterSlot(i)] =
                                       CounterAfter(node.component, counter)]
    /\ widget_dsl' = [widget_dsl EXCEPT ![i] = InputAfterMerge(@, CallTop(i).node)]
    /\ stack' = [stack EXCEPT ![i] = Tail(@)]
    /\ UNCHANGED <<layout_json, physical_size, virtual_size, pc, error, html>>

CallRenderInvalidLeaf(i) ==
    /\ CallAtNode(i)
    /\ NodeType(CallTop(i).node) = "leaf"
    /\ MissingComponent(CallTop(i).node)
    /\ error' = [error EXCEPT ![i] = "InvalidLeaf"]
    /\ pc' = [pc EXCEPT ![i] = "failed"]
    /\ stack' = [stack EXCEPT ![i] = <<>>]
    /\ UNCHANGED <<layout_json, physical_size, virtual_size, widget_dsl, lines, scripts,
                   component_counter, html>>

CallRenderSkip(i) ==
    /\ CallAtNode(i)
    /\ NodeType(CallTop(i).node) \notin {"container", "leaf"}
    /\ stack' = [stack EXCEPT ![i] = Tail(@)]
    /\ UNCHANGED <<layout_json, physical_size, virtual_size, widget_dsl, pc, error,
                   lines, scripts, component_counter, html>>

CallFinish(i) ==
    /\ pc[i] = "render"
    /\ stack[i] = <<>>
    /\ html' = [html EXCEPT ![i] = [widgetStyles |-> WidgetStyles(widget_dsl[i].widget),
                                    structure |-> lines[i],
                                    behavior |-> scripts[i]]]
    /\ pc' = [pc EXCEPT ![i] = "done"]
    /\ UNCHANGED <<layout_json, physical_size, virtual_size, widget_dsl, error, stack,
                   lines, scripts, component_counter>>

InitTwo ==
    /\ \/ /\ layout_json = [i \in Calls |-> NoLayout]
          /\ widget_dsl \in [Calls -> CountedSpecs]
          /\ pc = [i \in Calls |-> "ready"]
       \/ /\ layout_json \in [Calls -> CallLayouts]
          /\ widget_dsl = [i \in Calls |-> NoDsl]
          /\ pc = [i \in Calls |-> "init"]
    /\ physical_size = Physical
    /\ virtual_size = Virtual
    /\ error = [i \in Calls |-> ""]
    /\ stack = [i \in Calls |-> <<>>]
    /\ lines = [i \in Calls |-> <<>>]
    /\ scripts = [i \in Calls |-> <<>>]
    /\ component_counter = [i \in Calls |-> EmptyCounter]
    /\ html = [i \in Calls |-> NoHtml]

NextTwo ==
    \/ \E i \in Calls : CallConvert(i)
    \/ \E i \in Calls : CallInvalidSpec(i)
    \/ \E i \in Calls : CallStart(i)
    \/ \E i \in Calls : CallRenderContainer(i)
    \/ \E i \in Calls : CallRenderClose(i)
    \/ \E i \in Calls : CallRenderLeaf(i)
    \/ \E i \in Calls : CallRenderInvalidLeaf(i)
    \/ \E i \in Calls : CallRenderSkip(i)
    \/ \E i \in Calls : CallFinish(i)

SpecTwo == InitTwo /\ [][NextTwo]_vars

----------------------------------------------------------------------------
(* Properties of the pipeline and of the compiler (Spec) *)

\* A run of the pipeline (on a layout tree), not of the compiler alone
Pipeline == layout_json # NoLayout

CompileCalled == pc \in {"render", "done", "failed"} /\ error # "UnsupportedNodeType"

SubNodesOf(l) == IF "subNodes" \in DOMAIN l THEN l.subNodes ELSE <<>>

ChildrenOf(d) == IF "children" \in DOMAIN d THEN d.children ELSE <<>>

TypeOf(d) == IF "type" \in DOMAIN d THEN d.type ELSE ""

ComponentOf(d) == IF "component" \in DOMAIN d THEN d.component ELSE ""

\* The leaf kind a layout type stands for, compared without regard to case
LeafKindOfType(l) ==
    LET t == Lower(IF "type" \in DOMAIN l THEN l.type ELSE <<>>)
    IN  CASE t = <<"t", "e", "x", "t">> -> "Text"
          [] t = <<"p", "a", "r", "a", "g", "r", "a", "p", "h">> -> "Text"
          [] t = <<"i", "c", "o", "n">> -> "Icon"
          [] t = <<"i", "m", "a", "g", "e">> -> "Image"
          [] OTHER -> ""

\* Every leaf of an emitted tree carries a non-empty component
RECURSIVE LeavesHaveComponent(_)
LeavesHaveComponent(d) ==
    /\ TypeOf(d) \in {"container", "leaf"}
    /\ TypeOf(d) = "leaf" => ComponentOf(d) # ""
    /\ \A i \in DOMAIN ChildrenOf(d) : LeavesHaveComponent(ChildrenOf(d)[i])

RECURSIVE TreeSize(_)
TreeSize(l) ==
    LET subs == SubNodesOf(l)
        RECURSIVE Sum(_)
        Sum(i) == IF i = 0 THEN 0 ELSE TreeSize(subs[i]) + Sum(i - 1)
    IN  1 + Sum(Len(subs))

\* C1: round trip: the output of layout_json_to_widget_dsl always holds a
\* non-empty widget.root whose leaves all carry a non-empty component, and
\* compiling it raises neither the missing-root nor the missing-component
\* error.
C1_RoundTrip ==
    Pipeline =>
        /\ error = ""
        /\ pc # "failed"
        /\ pc # "init" =>
              /\ "widget" \in DOMAIN widget_dsl
              /\ "root" \in DOMAIN widget_dsl.widget
              /\ DOMAIN widget_dsl.widget.root # {}
              /\ LeavesHaveComponent(widget_dsl.widget.root)

\* C1 witness: a layout tree of three nodes went through both stages.
C1_Witness ==
    /\ Pipeline
    /\ pc = "done"
    /\ TreeSize(layout_json) = 3
    /\ Len(html.structure) >= 3

----------------------------------------------------------------------------

ChildlessNonLeaf(l) == SubNodesOf(l) = <<>> /\ LeafKindOfType(l) = ""

RECURSIVE ChildlessAreEmptyContainers(_, _)
ChildlessAreEmptyContainers(l, d) ==
    IF ChildlessNonLeaf(l)
    THEN /\ TypeOf(d) = "container"
         /\ d.children = <<>>
         /\ d.gap = 0
         /\ d.direction \in {"row", "col"}
         /\ "alignMain" \notin DOMAIN d
         /\ "alignCross" \notin DOMAIN d
         /\ "component" \notin DOMAIN d
    ELSE /\ Len(ChildrenOf(d)) = Len(SubNodesOf(l))
         /\ \A i \in DOMAIN SubNodesOf(l) :
               ChildlessAreEmptyContainers(SubNodesOf(l)[i], d.children[i])

RECURSIVE HasChildlessNonLeaf(_)
HasChildlessNonLeaf(l) ==
    \/ ChildlessNonLeaf(l)
    \/ \E i \in DOMAIN SubNodesOf(l) : HasChildlessNonLeaf(SubNodesOf(l)[i])

----------------------------------------------------------------------------

\* The input has no widget.root: no widget, no root, or an empty root
NoRoot(dsl) ==
    \/ "widget" \notin DOMAIN dsl
    \/ "root" \notin DOMAIN dsl.widget
    \/ dsl.widget.root = EmptyDict

NothingRendered ==
    /\ lines = <<>>
    /\ scripts = <<>>
    /\ component_counter = EmptyCounter
    /\ stack = <<>>
    /\ html = NoHtml

\* C3: a compile call on an input without widget.root (widget missing, root
\* missing or root empty) fails with InvalidSpec, and nothing was rendered
\* and no counter was used when it does; InvalidSpec is raised for no other
\* input.
C3_InvalidSpec ==
    CompileCalled =>
        /\ NoRoot(widget_dsl) => (error = "InvalidSpec" /\ pc = "failed")
        /\ error = "InvalidSpec" => (NoRoot(widget_dsl) /\ NothingRendered)

\* C3 witness: a spec with a widget whose root is present but empty failed.
C3_Witness ==
    /\ error = "InvalidSpec"
    /\ "widget" \in DOMAIN widget_dsl
    /\ "root" \in DOMAIN widget_dsl.widget
    /\ "padding" \in DOMAIN widget_dsl.widget

----------------------------------------------------------------------------

\* No leaf that the traversal reaches (through containers only) lacks a
\* component
RECURSIVE ReachedLeavesNamed(_)
ReachedLeavesNamed(d) ==
    IF TypeOf(d) = "container"
    THEN \A i \in DOMAIN ChildrenOf(d) : ReachedLeavesNamed(d.children[i])
    ELSE TypeOf(d) = "leaf" => ComponentOf(d) # ""

\* C4: when a leaf reached by the traversal lacks a component the compile
\* call ends with InvalidLeaf and returns no document, whatever was rendered
\* before; otherwise it returns a document.  No document exists before the
\* traversal is over.
C4_InvalidLeafNoOutput ==
    /\ pc \in {"init", "ready", "render", "failed"} => html = NoHtml
    /\ error = "InvalidLeaf" => pc = "failed"
    /\ (CompileCalled /\ pc # "render" /\ ~NoRoot(widget_dsl)) =>
          IF ReachedLeavesNamed(widget_dsl.widget.root)
          THEN pc = "done" /\ error = "" /\ html # NoHtml
          ELSE pc = "failed" /\ error = "InvalidLeaf" /\ html = NoHtml

\* C4 witness: a leaf without component failed the call after an earlier
\* sibling had put lines and a script into the lists.
C4_Witness ==
    /\ error = "InvalidLeaf"
    /\ Len(lines) >= 2
    /\ scripts # <<>>
    /\ html = NoHtml

----------------------------------------------------------------------------

Catalogue ==
    {"Text", "Button", "Icon", "Image", "Checkbox", "Divider", "Indicator",
     "ProgressBar", "ProgressRing", "Sparkline", "LineChart", "BarChart",
     "StackedBarChart", "RadarChart", "PieChart"}

\* The traversal is at a leaf with a non-empty name outside the catalogue
AtGenericLeaf ==
    /\ pc = "render"
    /\ stack # <<>>
    /\ stack[1].op = "node"
    /\ TypeOf(stack[1].node) = "leaf"
    /\ ComponentOf(stack[1].node) \notin Catalogue \cup {""}

GenericText(node) ==
    IF "content" \in DOMAIN node /\ node.content # "" THEN node.content
    ELSE node.component

IsGenericLeaf(d) == TypeOf(d) = "leaf" /\ ComponentOf(d) \notin Catalogue \cup {""}

\* C5: a leaf with a non-empty component name outside the catalogue is
\* rendered without error as exactly one markup line whose text is its
\* content when that is present and non-empty and its component name
\* otherwise, and no script entry is added; a spec whose root is such a leaf
\* compiles to a document of that one line.
C5_GenericRenderer ==
    /\ [][AtGenericLeaf =>
            /\ Len(lines') = Len(lines) + 1
            /\ SubSeq(lines', 1, Len(lines)) = lines
            /\ lines'[Len(lines')].text = GenericText(stack[1].node)
            /\ scripts' = scripts
            /\ component_counter' = component_counter
            /\ error' = ""]_vars
    /\ [](( /\ pc \in {"done", "failed"} /\ ~NoRoot(widget_dsl)
            /\ IsGenericLeaf(widget_dsl.widget.root))
          => /\ pc = "done"
             /\ Len(html.structure) = 1
             /\ html.structure[1].text = GenericText(widget_dsl.widget.root)
             /\ html.behavior = <<>>)

\* C5 witness: a document for a generic leaf whose content is empty shows
\* the component name.
C5_Witness ==
    /\ pc = "done"
    /\ IsGenericLeaf(widget_dsl.widget.root)
    /\ "content" \in DOMAIN widget_dsl.widget.root
    /\ widget_dsl.widget.root.content = ""
    /\ html.structure[1].text = widget_dsl.widget.root.component

----------------------------------------------------------------------------

\* A layout node and the DSL node emitted for it
RECURSIVE ClassifiedRight(_, _)
ClassifiedRight(l, d) ==
    LET kind == LeafKindOfType(l)
        childless == SubNodesOf(l) = <<>>
        IsLeafOf(c) == TypeOf(d) = "leaf" /\ ComponentOf(d) = c
    IN  /\ IsLeafOf("Text") <=> (kind = "Text" /\ childless)
        /\ IsLeafOf("Icon") <=> (kind = "Icon" /\ childless)
        /\ IsLeafOf("Image") <=> (kind = "Image" /\ childless)
        /\ TypeOf(d) \in {"leaf", "container"}
        /\ TypeOf(d) = "leaf" => ComponentOf(d) \in {"Text", "Icon", "Image"}
        /\ ~childless =>
              /\ TypeOf(d) = "container"
              /\ Len(d.children) = Len(l.subNodes)
              /\ \A i \in DOMAIN l.subNodes : ClassifiedRight(l.subNodes[i], d.children[i])

\* C6: a node is converted to a Text leaf iff its type, compared without
\* regard to case, is text or paragraph and it has no children, to an Icon
\* leaf iff its type is icon and it has no children, to an Image leaf iff
\* its type is image and it has no children; every node with a child is
\* converted to a container whatever its type.
C6_LeafClassification ==
    (Pipeline /\ pc # "init") =>
        /\ widget_dsl # NoDsl
        /\ ClassifiedRight(layout_json, widget_dsl.widget.root)

\* C6 witness: a node typed ICON with a child became a container, its child
\* typed Paragraph a Text leaf.
C6_Witness ==
    /\ Pipeline
    /\ pc = "ready"
    /\ LeafKindOfType(layout_json) = "Icon"
    /\ layout_json.type # <<"i", "c", "o", "n">>
    /\ Len(SubNodesOf(layout_json)) = 1
    /\ LeafKindOfType(layout_json.subNodes[1]) = "Text"
    /\ layout_json.subNodes[1].type # <<"t", "e", "x", "t">>
    /\ widget_dsl.widget.root.type = "container"
    /\ widget_dsl.widget.root.children[1].component = "Text"

----------------------------------------------------------------------------
(* Properties of the inference engine on one container (SpecGeom).         *)
(* The expected values are restated from the bounds of the input alone.    *)

Converted == pc = "ready"

InSubs == layout_json.subNodes

OutRoot == widget_dsl.widget.root

\* The children that carry bounds, by position
Bounded == {i \in DOMAIN InSubs : "bounds" \in DOMAIN InSubs[i]}

IsRow == OutRoot.direction = "row"

Lead(i) == IF IsRow THEN InSubs[i].bounds[1] ELSE InSubs[i].bounds[2]

Trail(i) == IF IsRow THEN InSubs[i].bounds[3] ELSE InSubs[i].bounds[4]

CrossLead(i) == IF IsRow THEN InSubs[i].bounds[2] ELSE InSubs[i].bounds[1]

CrossTrail(i) == IF IsRow THEN InSubs[i].bounds[4] ELSE InSubs[i].bounds[3]

\* Position (from 0) of child i once the children are ordered by leading
\* edge, equal edges keeping their given order
Rank(i) ==
    Cardinality({j \in Bounded : Lead(j) < Lead(i) \/ (Lead(j) = Lead(i) /\ j < i)})

Dist(p) == Lead(p[2]) - Trail(p[1])

\* D: the adjacent pairs at a strictly positive distance
PositivePairs ==
    {p \in Bounded \X Bounded : Rank(p[2]) = Rank(p[1]) + 1 /\ Dist(p) > 0}

DistRank(p) ==
    Cardinality({q \in PositivePairs :
        Dist(q) < Dist(p) \/ (Dist(q) = Dist(p) /\ Rank(q[1]) < Rank(p[1]))})

DistAt(k) == Dist(CHOOSE p \in PositivePairs : DistRank(p) = k)

\* Twice the median of D
MedianOfD2 ==
    LET n == Cardinality(PositivePairs)
    IN  IF n % 2 = 1 THEN 2 * DistAt((n - 1) \div 2)
        ELSE DistAt(n \div 2 - 1) + DistAt(n \div 2)

\* g is m2/2 rounded to the nearest integer, a tie going to the even one
IsRounded(g, m2) == 2 * g = m2 \/ (Abs(2 * g - m2) = 1 /\ g % 2 = 0)

----------------------------------------------------------------------------

InBounds == layout_json.bounds

AxisStart == IF IsRow THEN InBounds[1] ELSE InBounds[2]

AxisEnd == IF IsRow THEN InBounds[3] ELSE InBounds[4]

AxisSize == Max(0, AxisEnd - AxisStart)

CrossAxisStart == IF IsRow THEN InBounds[2] ELSE InBounds[1]

CrossAxisEnd == IF IsRow THEN InBounds[4] ELSE InBounds[3]

CrossAxisSize == Max(0, CrossAxisEnd - CrossAxisStart)

\* |d2 / 2| <= max(8, 8% of size)
Near(d2, size) == Abs(d2) <= 16 \/ 100 * Abs(d2) <= 16 * size

MinLead == SetMin({Lead(i) : i \in Bounded})

MaxTrail == SetMax({Trail(i) : i \in Bounded})

FirstGiven == SetMin(Bounded)

LastGiven == SetMax(Bounded)

\* The alignMain ladder for a leading edge lead and a trailing edge trail
MainLadder(lead, trail) ==
    IF /\ Cardinality(Bounded) >= 2
       /\ Near(2 * (lead - AxisStart), AxisSize)
       /\ Near(2 * (AxisEnd - trail), AxisSize)
    THEN "between"
    ELSE IF Near((MinLead + MaxTrail) - (2 * AxisStart + AxisSize), AxisSize)
    THEN "center"
    ELSE IF Near(2 * (lead - AxisStart), AxisSize) THEN "start"
    ELSE IF Near(2 * (AxisEnd - trail), AxisSize) THEN "end"
    ELSE "start"

\* C8 as stated: the ladder takes the first and the last child in the
\* children's given order.
C8_Original_GivenOrder ==
    (Converted /\ Bounded # {}) =>
        OutRoot.alignMain = MainLadder(Lead(FirstGiven), Trail(LastGiven))

\* C8 amended: the alignMain ladder (between, center, start, end, start) with
\* tol = max(8, 8% of the container's main-axis size) takes the smallest
\* leading edge and the largest trailing edge of the children with bounds,
\* whatever their given order.
C8_AlignMainLadder ==
    (Converted /\ Bounded # {}) =>
        OutRoot.alignMain = MainLadder(MinLead, MaxTrail)

\* C8 witness: the first given child is not the leftmost one, the children
\* span the container and the result is between.
C8_Witness ==
    /\ Converted
    /\ Cardinality(Bounded) >= 2
    /\ Lead(FirstGiven) > MinLead + 16
    /\ OutRoot.alignMain = "between"

\* C8 second witness: an edge aligned only by the 8% rule yields end.
C8_WitnessEnd ==
    /\ Converted
    /\ Bounded # {}
    /\ Abs(AxisEnd - MaxTrail) > 8
    /\ OutRoot.alignMain = "end"

----------------------------------------------------------------------------

\* Sum over the children with bounds of twice their cross-axis centre
RECURSIVE CrossCentreSum2(_)
CrossCentreSum2(S) ==
    IF S = {} THEN 0
    ELSE LET i == CHOOSE x \in S : TRUE
         IN  2 * CrossLead(i) + Max(0, CrossTrail(i) - CrossLead(i))
             + CrossCentreSum2(S \ {i})

\* |average centre - x2/2| <= tol, the average taken over n children
AverageNear(x2) ==
    LET n == Cardinality(Bounded)
        d == Abs(CrossCentreSum2(Bounded) - n * x2)
    IN  d <= 16 * n \/ 100 * d <= 16 * n * CrossAxisSize

MinCrossLead == SetMin({CrossLead(i) : i \in Bounded})

MaxCrossTrail == SetMax({CrossTrail(i) : i \in Bounded})

\* C9 as stated: the average of the centres decides center, start and end.
C9_Original_AverageOnly ==
    (Converted /\ Bounded # {}) =>
        OutRoot.alignCross =
            IF AverageNear(2 * CrossAxisStart + CrossAxisSize) THEN "center"
            ELSE IF AverageNear(2 * CrossAxisStart) THEN "start"
            ELSE IF AverageNear(2 * CrossAxisEnd) THEN "end"
            ELSE "start"

\* C9 amended: alignCross is center when the average of the children's
\* cross-axis centres is within tol of the container's centre; otherwise
\* start when the smallest leading cross edge of the children is within tol
\* of the container's start, otherwise end when their largest trailing cross
\* edge is within tol of its end, otherwise start; it is never between.
C9_AlignCrossLadder ==
    (Converted /\ Bounded # {}) =>
        /\ OutRoot.alignCross =
            IF AverageNear(2 * CrossAxisStart + CrossAxisSize) THEN "center"
            ELSE IF Near(2 * (MinCrossLead - CrossAxisStart), CrossAxisSize) THEN "start"
            ELSE IF Near(2 * (CrossAxisEnd - MaxCrossTrail), CrossAxisSize) THEN "end"
            ELSE "start"
        /\ OutRoot.alignCross # "between"

\* C9 witness: end is reported from the children's trailing edge although
\* their average centre is near neither the centre nor the end.
C9_Witness ==
    /\ Converted
    /\ Bounded # {}
    /\ ~AverageNear(2 * CrossAxisEnd)
    /\ OutRoot.alignCross = "end"

----------------------------------------------------------------------------

SoleChildFills ==
    /\ Len(InSubs) = 1
    /\ "bounds" \in DOMAIN InSubs[1]
    /\ InSubs[1].bounds = InBounds

\* C10 as stated: for every container rectangle a sole child that fills it
\* gives center on both axes.
C10_Original_EveryRect ==
    (Converted /\ SoleChildFills) =>
        OutRoot.alignMain = "center" /\ OutRoot.alignCross = "center"

\* C10 amended: a sole child with exactly the container's bounds gives
\* alignCross = center for every rectangle, and alignMain = center for every
\* rectangle whose main-axis trailing edge is not more than 16 before its
\* leading edge (so for every rectangle with right >= left and bottom >= top);
\* for a rectangle inverted by more than 16 alignMain is start.
C10_SoleChildCentered ==
    (Converted /\ SoleChildFills) =>
        /\ OutRoot.alignCross = "center"
        /\ OutRoot.alignMain =
              IF AxisEnd >= AxisStart - 16 THEN "center" ELSE "start"

\* C10 witness: a well-formed container with a positive size filled by its
\* sole child
C10_Witness ==
    /\ Converted
    /\ SoleChildFills
    /\ AxisEnd > AxisStart
    /\ CrossAxisEnd > CrossAxisStart
    /\ OutRoot.alignMain = "center"
    /\ OutRoot.alignCross = "center"

----------------------------------------------------------------------------

NoScriptComponents ==
    {"Text", "Icon", "Image", "Checkbox", "Divider", "Indicator", "ProgressBar"}

ScriptComponents ==
    {"Button", "ProgressRing", "Sparkline", "LineChart", "BarChart",
     "StackedBarChart", "RadarChart", "PieChart"}

\* The traversal is at a leaf with a component
AtNamedLeaf ==
    /\ pc = "render"
    /\ stack # <<>>
    /\ stack[1].op = "node"
    /\ TypeOf(stack[1].node) = "leaf"
    /\ ComponentOf(stack[1].node) # ""

\* The leaves with a scripted component that the traversal visits below d
RECURSIVE ScriptedLeaves(_)
ScriptedLeaves(d) ==
    LET kids == ChildrenOf(d)
        RECURSIVE Sum(_)
        Sum(i) == IF i = 0 THEN 0 ELSE ScriptedLeaves(kids[i]) + Sum(i - 1)
    IN  IF TypeOf(d) = "container" THEN Sum(Len(kids))
        ELSE IF TypeOf(d) = "leaf" /\ ComponentOf(d) \in ScriptComponents THEN 1
        ELSE 0

\* C16: a Text, Icon, Image, Checkbox, Divider, Indicator, ProgressBar or
\* generic leaf adds no behaviour-script entry; a Button leaf adds exactly
\* one, which refers to the identifier written as the id of the button
\* element; the document of a compile call holds as many script entries as
\* Button, ProgressRing, Sparkline and chart leaves were visited.
C16_ScriptEntries ==
    /\ [][AtNamedLeaf =>
            LET name == stack[1].node.component
            IN  /\ (name \in NoScriptComponents \/ name \notin Catalogue)
                      => scripts' = scripts
                /\ name = "Button" =>
                      /\ Len(scripts') = Len(scripts) + 1
                      /\ SubSeq(scripts', 1, Len(scripts)) = scripts
                      /\ Len(lines') > Len(lines)
                      /\ lines'[Len(lines) + 1].role = "button"
                      /\ scripts'[Len(scripts')].kind = "button"
                      /\ scripts'[Len(scripts')].id = lines'[Len(lines) + 1].id]_vars
    /\ [](pc = "done" => Len(html.behavior) = ScriptedLeaves(widget_dsl.widget.root))

\* C16 witness: the document of a Text leaf and a Button leaf holds the text
\* Hi and one script entry, for the id of the button element.
C16_Witness ==
    /\ pc = "done"
    /\ layout_json = NoLayout
    /\ TypeOf(widget_dsl.widget.root) = "container"
    /\ Len(ChildrenOf(widget_dsl.widget.root)) = 2
    /\ ComponentOf(widget_dsl.widget.root.children[1]) = "Text"
    /\ ComponentOf(widget_dsl.widget.root.children[2]) = "Button"
    /\ html.structure[2].text = "Hi"
    /\ Len(html.behavior) = 1
    /\ html.behavior[1].id = html.structure[3].id

\* The document of the single Text leaf Hi has no script entry.
C16_WitnessText ==
    /\ pc = "done"
    /\ layout_json = NoLayout
    /\ TypeOf(widget_dsl.widget.root) = "leaf"
    /\ ComponentOf(widget_dsl.widget.root) = "Text"
    /\ Len(html.structure) = 1
    /\ html.structure[1].text = "Hi"
    /\ html.behavior = <<>>

----------------------------------------------------------------------------

Clamp(p, lo, hi) == IF p < lo THEN lo ELSE IF p > hi THEN hi ELSE p

PropOf(node, k, default) ==
    IF "props" \in DOMAIN node /\ k \in DOMAIN node.props THEN node.props[k] ELSE default

\* The circumference of the ring of a leaf, in multiples of pi:
\* 2 * pi * (size - strokeWidth) / 2
RingCircumferencePi(node) == PropOf(node, "size", 80) - PropOf(node, "strokeWidth", 6)

AtRingLeaf == AtNamedLeaf /\ stack[1].node.component = "ProgressRing"

\* The line of the progress circle among the lines a ring leaf added
ProgressCircles(new) == {i \in DOMAIN new : "dashoffsetPi100" \in DOMAIN new[i]}

\* C17: for every percentage p of a ProgressRing leaf the emitted
\* stroke-dashoffset is circumference * (1 - clamp(p, 0, 100) / 100), so
\* p >= 100 gives the offset of 100 and p <= 0 the offset of 0; the script's
\* initial target is the same offset, and its updateProgress operation
\* clamps its argument to 0..100 in the same way and uses the same
\* circumference.  (Offsets in hundredths of pi.)
C17_ProgressRingClamp ==
    [][AtRingLeaf =>
        LET node == stack[1].node
            p == PropOf(node, "percentage", 0)
            circ == RingCircumferencePi(node)
            expected == circ * (100 - Clamp(p, 0, 100))
            new == SubSeq(lines', Len(lines) + 1, Len(lines'))
            script == scripts'[Len(scripts')]
        IN  /\ Len(scripts') = Len(scripts) + 1
            /\ Cardinality(ProgressCircles(new)) = 1
            /\ \A i \in ProgressCircles(new) :
                  /\ new[i].dashoffsetPi100 = expected
                  /\ new[i].dasharrayPi = circ
            /\ p >= 100 => \A i \in ProgressCircles(new) : new[i].dashoffsetPi100 = 0
            /\ p <= 0 => \A i \in ProgressCircles(new) : new[i].dashoffsetPi100 = 100 * circ
            /\ script.kind = "progressring"
            /\ script.targetOffsetPi100 = expected
            /\ updateProgress(script, p) = expected
            /\ \A q \in RingPercentages :
                  updateProgress(script, q) = circ * (100 - Clamp(q, 0, 100))]_vars

\* C17 witness: the document of a ring with percentage 150 has offset 0,
\* and its updateProgress gives the full circumference for -20.
C17_Witness ==
    /\ pc = "done"
    /\ layout_json = NoLayout
    /\ ComponentOf(widget_dsl.widget.root) = "ProgressRing"
    /\ PropOf(widget_dsl.widget.root, "percentage", 0) = 150
    /\ PropOf(widget_dsl.widget.root, "size", 80) = 80
    /\ html.structure[4].dashoffsetPi100 = 0
    /\ html.behavior[1].targetOffsetPi100 = 0
    /\ updateProgress(html.behavior[1], -20) = 100 * 74

----------------------------------------------------------------------------

AtSparklineLeaf == AtNamedLeaf /\ stack[1].node.component = "Sparkline"

DrawingCalls == {"beginPath", "moveTo", "lineTo", "stroke"}

\* C18: a Sparkline leaf whose data has fewer than 2 points (none given,
\* 0 or 1) is compiled without error to one canvas element and one script;
\* that script, when run, stops after the context setup and the clearing:
\* it begins no path, issues no moveTo or lineTo and does not stroke.
C18_SparklineShortCircuit ==
    /\ [][(AtSparklineLeaf /\ Len(PropOf(stack[1].node, "data", <<>>)) < 2) =>
            /\ error' = ""
            /\ pc' = "render"
            /\ Len(lines') = Len(lines) + 1
            /\ lines'[Len(lines')].el = "canvas"
            /\ Len(scripts') = Len(scripts) + 1
            /\ scripts'[Len(scripts')].kind = "sparkline"
            /\ scripts'[Len(scripts')].id = lines'[Len(lines')].id
            /\ scripts'[Len(scripts')].data = PropOf(stack[1].node, "data", <<>>)]_vars
    /\ [](\A i \in DOMAIN scripts :
            (scripts[i].kind = "sparkline" /\ Len(scripts[i].data) < 2) =>
                /\ sparkline_script(scripts[i]) = <<"getContext", "scale", "clearRect">>
                /\ Range(sparkline_script(scripts[i])) \cap DrawingCalls = {})

\* C18 witness: the document of a Sparkline with the single point 7 has the
\* canvas, and its script makes the three setup calls only.
C18_Witness ==
    /\ pc = "done"
    /\ layout_json = NoLayout
    /\ ComponentOf(widget_dsl.widget.root) = "Sparkline"
    /\ PropOf(widget_dsl.widget.root, "data", <<>>) = <<7>>
    /\ Len(html.structure) = 1
    /\ html.structure[1].el = "canvas"
    /\ Len(html.behavior) = 1
    /\ Len(sparkline_script(html.behavior[1])) = 3

\* The script of a Sparkline with two points draws the polyline.
C18_WitnessDraws ==
    /\ pc = "done"
    /\ layout_json = NoLayout
    /\ ComponentOf(widget_dsl.widget.root) = "Sparkline"
    /\ Len(PropOf(widget_dsl.widget.root, "data", <<>>)) = 2
    /\ sparkline_script(html.behavior[1])
          = <<"getContext", "scale", "clearRect", "beginPath", "moveTo", "lineTo", "stroke">>

----------------------------------------------------------------------------

\* A line or script entry without its generated identifier
WithoutId(entry) == [k \in DOMAIN entry \ {"id"} |-> entry[k]]

WithoutIds(entries) == [i \in DOMAIN entries |-> WithoutId(entries[i])]

RECURSIVE Concat(_)
Concat(seqs) == IF seqs = <<>> THEN <<>> ELSE Head(seqs) \o Concat(Tail(seqs))

\* What the renderer of a named leaf appends, identifiers left out
LeafOutput(d, depth) == RenderLeafComponent(d, depth, EmptyCounter, 1)

\* The lines of the subtree d in depth-first pre-order: the opening line of
\* a container, the lines of its children in their listed order, its
\* closing line
RECURSIVE PreOrderLines(_, _)
PreOrderLines(d, depth) ==
    IF TypeOf(d) = "container"
    THEN <<[depth |-> depth, el |-> "div", style |-> ContainerStyles(d)]>>
         \o Concat([i \in DOMAIN ChildrenOf(d) |-> PreOrderLines(ChildrenOf(d)[i], depth + 1)])
         \o <<[depth |-> depth, el |-> "/div"]>>
    ELSE IF TypeOf(d) = "leaf" /\ ComponentOf(d) # ""
    THEN WithoutIds(LeafOutput(d, depth).lines)
    ELSE <<>>

RECURSIVE PreOrderScripts(_, _)
PreOrderScripts(d, depth) ==
    IF TypeOf(d) = "container"
    THEN Concat([i \in DOMAIN ChildrenOf(d) |-> PreOrderScripts(ChildrenOf(d)[i], depth + 1)])
    ELSE IF TypeOf(d) = "leaf" /\ ComponentOf(d) # ""
    THEN WithoutIds(LeafOutput(d, depth).scripts)
    ELSE <<>>

IsPrefix(s, t) == Len(s) <= Len(t) /\ SubSeq(t, 1, Len(s)) = s

\* C19: the tree is visited depth-first in pre-order, children in their
\* listed order, and lines and scripts stand in the document in the order
\* the renderers ran: during the traversal both lists only grow at the end
\* and are prefixes of the pre-order output, and the document holds exactly
\* the pre-order output: a container's opening line before and its closing
\* line after all lines of its descendants, an earlier sibling's lines
\* before a later sibling's.
C19_PreOrderOutput ==
    /\ [][pc = "render" => (IsPrefix(lines, lines') /\ IsPrefix(scripts, scripts'))]_vars
    /\ [](pc = "render" =>
            /\ IsPrefix(WithoutIds(lines), PreOrderLines(widget_dsl.widget.root, 0))
            /\ IsPrefix(WithoutIds(scripts), PreOrderScripts(widget_dsl.widget.root, 0)))
    /\ [](pc = "done" =>
            /\ html.structure = lines
            /\ html.behavior = scripts
            /\ WithoutIds(html.structure) = PreOrderLines(widget_dsl.widget.root, 0)
            /\ WithoutIds(html.behavior) = PreOrderScripts(widget_dsl.widget.root, 0))

\* C19 witness: the document of a container with a Button and a nested
\* container holding a chart: the button's lines and script come first, the
\* nested container's lines lie between the root's opening and closing line.
C19_Witness ==
    /\ pc = "done"
    /\ layout_json = NoLayout
    /\ TypeOf(widget_dsl.widget.root) = "container"
    /\ Len(ChildrenOf(widget_dsl.widget.root)) = 2
    /\ ComponentOf(widget_dsl.widget.root.children[1]) = "Button"
    /\ TypeOf(widget_dsl.widget.root.children[2]) = "container"
    /\ ComponentOf(widget_dsl.widget.root.children[2].children[1]) = "BarChart"
    /\ Len(html.structure) = 8
    /\ html.structure[2].role = "button"
    /\ html.structure[5].depth = 1
    /\ html.structure[6].depth = 2
    /\ html.structure[8] = [depth |-> 0, el |-> "/div"]
    /\ html.behavior[1].kind = "button"
    /\ html.behavior[2].kind = "chart"

----------------------------------------------------------------------------

ChildHasBounds(l) ==
    \E i \in DOMAIN SubNodesOf(l) :
        /\ "bounds" \in DOMAIN SubNodesOf(l)[i]
        /\ SubNodesOf(l)[i].bounds # <<>>

\* The emitted node d of the layout node l is one well-formed variant
RECURSIVE OneVariantNoNull(_, _)
OneVariantNoNull(l, d) ==
    /\ "type" \in DOMAIN d
    /\ d.type \in {"container", "leaf"}
    /\ d.type = "container" =>
          /\ DOMAIN d \subseteq {"type", "direction", "gap", "alignMain",
                                 "alignCross", "flex", "children"}
          /\ {"direction", "gap", "children"} \subseteq DOMAIN d
          /\ d.direction \in {"row", "col"}
          /\ d.gap \in Nat
          /\ DOMAIN d.children = 1..Len(d.children)
          /\ "alignMain" \in DOMAIN d <=> ChildHasBounds(l)
          /\ "alignCross" \in DOMAIN d <=> ChildHasBounds(l)
          /\ "alignMain" \in DOMAIN d => d.alignMain \in {"start", "end", "center", "between"}
          /\ "alignCross" \in DOMAIN d => d.alignCross \in {"start", "end", "center"}
          /\ "flex" \in DOMAIN d => d.flex \in Nat
          /\ \A i \in DOMAIN d.children : OneVariantNoNull(SubNodesOf(l)[i], d.children[i])
    /\ d.type = "leaf" =>
          /\ "component" \in DOMAIN d
          /\ d.component \in {"Text", "Icon", "Image"}
          /\ DOMAIN d \cap {"direction", "gap", "children", "alignMain",
                            "alignCross", "flex"} = {}

\* C12: every node of an emitted tree is exactly one variant: a container
\* with direction row or col, an integer gap >= 0 and a children list, or a
\* leaf with a component; alignMain and alignCross are present iff the
\* container has a child with bounds, then with a value among start, end,
\* center, between (alignMain) or start, end, center (alignCross); no
\* alignMain, alignCross or flex is present without a value.
C12_OneVariantNoNull ==
    (Pipeline /\ pc # "init") =>
        /\ widget_dsl # NoDsl
        /\ OneVariantNoNull(layout_json, widget_dsl.widget.root)

\* C12 witness: a container whose only child has no bounds came out without
\* alignMain and alignCross, below a container that has both.
C12_Witness ==
    /\ Pipeline
    /\ pc = "ready"
    /\ TypeOf(widget_dsl.widget.root) = "container"
    /\ "alignMain" \in DOMAIN widget_dsl.widget.root
    /\ "alignCross" \in DOMAIN widget_dsl.widget.root
    /\ \E i \in DOMAIN widget_dsl.widget.root.children :
          LET d == widget_dsl.widget.root.children[i]
          IN  /\ TypeOf(d) = "container"
              /\ Len(d.children) = 1
              /\ "alignMain" \notin DOMAIN d
              /\ "alignCross" \notin DOMAIN d
              /\ "flex" \in DOMAIN d

----------------------------------------------------------------------------

\* C15: for every rectangle width = max(0, right - left) and height =
\* max(0, bottom - top): 0 when right < left resp. bottom < top, never
\* negative, whatever the order of the four numbers.  Seen in the aspect
\* ratio, which is the root rectangle's width and height.
C15_RectSizeNeverNegative ==
    Converted =>
        LET b == layout_json.bounds
            w == widget_dsl.widget.aspectRatio[1]
            h == widget_dsl.widget.aspectRatio[2]
        IN  /\ w >= 0
            /\ h >= 0
            /\ w = IF b[3] < b[1] THEN 0 ELSE b[3] - b[1]
            /\ h = IF b[4] < b[2] THEN 0 ELSE b[4] - b[2]
            /\ w = width(_rect_from_bounds(b))
            /\ h = height(_rect_from_bounds(b))

\* C15 witness: bounds with right < left and top < bottom gave width 0 and
\* a positive height.
C15_Witness ==
    /\ Converted
    /\ layout_json.bounds[3] < layout_json.bounds[1]
    /\ layout_json.bounds[4] > layout_json.bounds[2]
    /\ widget_dsl.widget.aspectRatio[1] = 0
    /\ widget_dsl.widget.aspectRatio[2] > 0

----------------------------------------------------------------------------
(* Properties of the single inference rules (SpecInfer) *)

BoundsOf(l) == IF "bounds" \in DOMAIN l THEN l.bounds ELSE <<0, 0, 0, 0>>

\* The size of bounds b on the main axis of direction dir, never negative
MainSizeOf(b, dir) ==
    LET size == IF dir = "row" THEN b[3] - b[1] ELSE b[4] - b[2]
    IN  IF size < 0 THEN 0 ELSE size

\* f thousandths is child/parent rounded to three decimals, and not negative
IsFlexOf(f, child, parent) ==
    /\ f >= 0
    /\ 2 * Abs(f * parent - 1000 * child) <= parent
    /\ 2 * child = parent => f = 500

\* Every node below a parent carries the flex, the leaves too
RECURSIVE FlexOnEveryNode(_, _, _)
FlexOnEveryNode(l, d, parent) ==
    /\ IF parent = <<>> THEN "flex" \notin DOMAIN d
       ELSE /\ "flex" \in DOMAIN d
            /\ MainSizeOf(parent[1], parent[2]) > 0 =>
                  IsFlexOf(d.flex, MainSizeOf(BoundsOf(l), parent[2]),
                           MainSizeOf(parent[1], parent[2]))
    /\ \A i \in DOMAIN ChildrenOf(d) :
          FlexOnEveryNode(SubNodesOf(l)[i], d.children[i], <<BoundsOf(l), d.direction>>)

\* C11 as stated: every node converted below a parent carries flex =
\* round(childMainSize / parentMainSize, 3), the root carries none.
C11_Original_EveryNode ==
    pc = "ready" => FlexOnEveryNode(layout_json, widget_dsl.widget.root, <<>>)

\* Containers below a parent of positive main size carry the flex; leaves,
\* the root and nodes below a parent of main size 0 carry none
RECURSIVE FlexOnContainers(_, _, _)
FlexOnContainers(l, d, parent) ==
    /\ IF /\ parent # <<>>
          /\ TypeOf(d) = "container"
          /\ MainSizeOf(parent[1], parent[2]) > 0
       THEN /\ "flex" \in DOMAIN d
            /\ IsFlexOf(d.flex, MainSizeOf(BoundsOf(l), parent[2]),
                        MainSizeOf(parent[1], parent[2]))
       ELSE "flex" \notin DOMAIN d
    /\ \A i \in DOMAIN ChildrenOf(d) :
          FlexOnContainers(SubNodesOf(l)[i], d.children[i], <<BoundsOf(l), d.direction>>)

\* C11 amended: a node converted to a container below a parent whose
\* main-axis size is positive carries flex = round(childMainSize /
\* parentMainSize, 3) measured on the parent's main axis, never negative and
\* 0.5 for a child of half the parent's size; the root, every leaf and every
\* node below a parent of main-axis size 0 carry no flex field.
C11_FlexOnContainers ==
    pc = "ready" => FlexOnContainers(layout_json, widget_dsl.widget.root, <<>>)

\* C11 witness: a column parent 16 high holds a Text leaf without flex and
\* a container 8 high with flex 0.5.
C11_Witness ==
    /\ pc = "ready"
    /\ "direction" \in DOMAIN widget_dsl.widget.root
    /\ widget_dsl.widget.root.direction = "col"
    /\ Len(widget_dsl.widget.root.children) = 2
    /\ "flex" \notin DOMAIN widget_dsl.widget.root.children[1]
    /\ widget_dsl.widget.root.children[1].type = "leaf"
    /\ widget_dsl.widget.root.children[2].type = "container"
    /\ MainSizeOf(BoundsOf(layout_json.subNodes[2]), "row") # 20
    /\ widget_dsl.widget.root.children[2].flex = 500

\* A parent of main-axis size 0 leaves its container child without flex.
C11_WitnessZeroParent ==
    /\ pc = "ready"
    /\ "direction" \in DOMAIN widget_dsl.widget.root
    /\ widget_dsl.widget.root.direction = "row"
    /\ MainSizeOf(BoundsOf(layout_json), "row") = 0
    /\ Len(widget_dsl.widget.root.children) = 1
    /\ widget_dsl.widget.root.children[1].type = "container"
    /\ "flex" \notin DOMAIN widget_dsl.widget.root.children[1]

----------------------------------------------------------------------------

HintOf(l) == IF "direction" \in DOMAIN l THEN l.direction ELSE <<>>

\* The hint holds the letters r, o, w in a row, in either case
HoldsRow(h) ==
    \E i \in 1..(Len(h) - 2) :
        /\ h[i] \in {"r", "R"}
        /\ h[i + 1] \in {"o", "O"}
        /\ h[i + 2] \in {"w", "W"}

RECURSIVE DirectionsMapped(_, _)
DirectionsMapped(l, d) ==
    TypeOf(d) = "container" =>
        /\ d.direction \in {"row", "col"}
        /\ d.direction = "row" <=> HoldsRow(HintOf(l))
        /\ \A i \in DOMAIN d.children : DirectionsMapped(SubNodesOf(l)[i], d.children[i])

\* C13: the emitted direction of a container is row iff its direction hint
\* holds the substring "row" in any letter case, also when the hint holds
\* "col" or "stack" as well; every other hint (missing, empty, with "col" or
\* "stack", unrecognised) gives col.  The result is always row or col.
C13_DirectionMapping ==
    pc = "ready" => DirectionsMapped(layout_json, widget_dsl.widget.root)

\* C13 witness: the hint colRow gave row, the hint Stack of the child col.
C13_Witness ==
    /\ pc = "ready"
    /\ HintOf(layout_json) = <<"c", "o", "l", "R", "o", "w">>
    /\ widget_dsl.widget.root.direction = "row"
    /\ Len(SubNodesOf(layout_json)) = 2
    /\ HintOf(layout_json.subNodes[2]) = <<"S", "t", "a", "c", "k">>
    /\ widget_dsl.widget.root.children[2].direction = "col"

----------------------------------------------------------------------------

\* The layout is a single Text node: the run applies estimate_font_size
IsTextRun == pc = "ready" /\ TypeOf(widget_dsl.widget.root) = "leaf"

LinesOf(l) ==
    IF "num_line" \in DOMAIN l /\ l.num_line >= 1 THEN l.num_line ELSE 1

\* The scale as written: <<numerator, denominator>>
ScaleAsStated ==
    IF virtual_size[1] > 0 THEN <<physical_size[1], virtual_size[1]>>
    ELSE IF virtual_size[2] > 0 THEN <<physical_size[2], virtual_size[2]>>
    ELSE <<1, 1>>

\* f is height / scale / lines / 1.2 rounded to an integer, or the floor 10
IsFontSizeOf(f, h, lns) ==
    LET num == 5 * h * ScaleAsStated[2]
        den == 6 * lns * ScaleAsStated[1]
    IN  \/ f = 10 /\ 2 * num <= 21 * den
        \/ f >= 10 /\ 2 * Abs(f * den - num) <= den

\* C14: estimate_font_size never returns less than 10; with the scale
\* physicalWidth/virtualWidth when virtualWidth > 0, else
\* physicalHeight/virtualHeight when virtualHeight > 0, else 1, it returns
\* round(height / scale / max(1, lines) / 1.2) floored at 10, and for a fixed
\* scale and line count it is non-decreasing in the bounds height.
C14_FontSizeFloorMonotone ==
    IsTextRun =>
        LET f == widget_dsl.widget.root.props.fontSize
            b == layout_json.bounds
            h == b[4] - b[2]
        IN  /\ f >= 10
            /\ IsFontSizeOf(f, h, LinesOf(layout_json))
            /\ \A h1 \in 0..h :
                  estimate_font_size(Rect(b[1], b[2], b[3], b[2] + h1), physical_size,
                                     virtual_size, LinesOf(layout_json)) <= f

\* C14 witness: with virtual width 0 the scale came from the heights
\* (1440/480 = 3): a text 60 high on one line got font size 17.
C14_Witness ==
    /\ IsTextRun
    /\ virtual_size[1] = 0
    /\ virtual_size[2] > 0
    /\ "num_line" \notin DOMAIN layout_json
    /\ layout_json.bounds[4] - layout_json.bounds[2] = 60
    /\ widget_dsl.widget.root.props.fontSize = 17

\* A text too small for the floor got font size 10.
C14_WitnessFloor ==
    /\ IsTextRun
    /\ layout_json.bounds[4] - layout_json.bounds[2] = 3
    /\ widget_dsl.widget.root.props.fontSize = 10

----------------------------------------------------------------------------
(* Properties of two interleaved invocations (SpecTwo) *)

IsChart(name) ==
    name \in {"LineChart", "BarChart", "StackedBarChart", "RadarChart", "PieChart"}

\* The numbers of the ids with the given prefix, in the order of the lines
NumbersOf(ls, prefix) ==
    LET Numbered(line) == "id" \in DOMAIN line /\ line.id[1] = prefix
        kept == SelectSeq(ls, Numbered)
    IN  [j \in DOMAIN kept |-> kept[j].id[2]]

\* 0, 1, ..., n - 1
CountingFromZero(nums) == \A j \in DOMAIN nums : nums[j] = j - 1

\* The leaves of a kind that the traversal visits below d
RECURSIVE LeavesOfKind(_, _)
LeavesOfKind(d, sparkline) ==
    LET kids == ChildrenOf(d)
        RECURSIVE Sum(_)
        Sum(i) == IF i = 0 THEN 0 ELSE LeavesOfKind(kids[i], sparkline) + Sum(i - 1)
    IN  IF TypeOf(d) = "container" THEN Sum(Len(kids))
        ELSE IF TypeOf(d) # "leaf" THEN 0
        ELSE IF sparkline /\ ComponentOf(d) = "Sparkline" THEN 1
        ELSE IF ~sparkline /\ IsChart(ComponentOf(d)) THEN 1
        ELSE 0

\* C20: every invocation starts its chart and its sparkline counter at 0;
\* the k-th chart leaf it visits (the five chart kinds share the counter)
\* gets the id chart-(k-1) and the k-th sparkline sparkline-(k-1), so the
\* ids are pairwise distinct within a document; however the steps of two
\* invocations interleave, each assigns the ids it would assign alone: they
\* depend on its own tree only.
C20_CountersPerInvocation ==
    /\ [][\A i \in Calls :
            (pc[i] = "ready" /\ pc'[i] = "render") =>
                component_counter'[i] = EmptyCounter]_vars
    /\ [](\A i \in Calls :
            /\ CountingFromZero(NumbersOf(lines[i], "chart"))
            /\ CountingFromZero(NumbersOf(lines[i], "sparkline"))
            /\ NumbersOf(scripts[i], "chart") = NumbersOf(lines[i], "chart")
            /\ NumbersOf(scripts[i], "sparkline") = NumbersOf(lines[i], "sparkline")
            /\ pc[i] = "done" =>
                  /\ Len(NumbersOf(html[i].structure, "chart"))
                        = LeavesOfKind(widget_dsl[i].widget.root, FALSE)
                  /\ Len(NumbersOf(html[i].structure, "sparkline"))
                        = LeavesOfKind(widget_dsl[i].widget.root, TRUE)
                  /\ CountingFromZero(NumbersOf(html[i].structure, "chart"))
                  /\ CountingFromZero(NumbersOf(html[i].structure, "sparkline")))

\* C20 witness: two invocations are both half-way through a tree of two
\* charts; each has given its first chart the id chart-0.
C20_Witness ==
    /\ \A i \in Calls :
          /\ pc[i] = "render"
          /\ NumbersOf(lines[i], "chart") = <<0>>
          /\ Len(stack[i]) = 2
          /\ stack[i][1].op = "node"
          /\ IsChart(ComponentOf(stack[i][1].node))
    /\ widget_dsl[1] # widget_dsl[2]

\* Both invocations are done; each document has the ids chart-0, chart-1.
C20_WitnessDone ==
    \A i \in Calls :
        /\ pc[i] = "done"
        /\ NumbersOf(html[i].structure, "chart") = <<0, 1>>

\* An invocation that returned or raised
Finished(i) == pc[i] \in {"done", "failed"}

\* Two documents that differ at most in the generated identifiers
SameDocument(a, b) ==
    /\ a.widgetStyles = b.widgetStyles
    /\ WithoutIds(a.structure) = WithoutIds(b.structure)
    /\ WithoutIds(a.behavior) = WithoutIds(b.behavior)

C21_WitnessInference ==
    /\ layout_json[1] # NoLayout
    /\ layout_json[1] = layout_json[2]
    /\ "subNodes" \in DOMAIN layout_json[1]
    /\ pc[1] = "done" /\ pc[2] = "done"
    /\ widget_dsl[1] = widget_dsl[2]

----------------------------------------------------------------------------
(* Further properties of the compiler (Spec) *)

C22_WitnessFailed ==
    /\ pc = "failed"
    /\ error = "InvalidLeaf"
    /\ lines # <<>>
    /\ HasRoot(widget_dsl)

\* The values of the rules of a rule set with the given property name
RulesOf(style, name) ==
    LET Named(rule) == rule[1] = name
        kept == SelectSeq(style, Named)
    IN  [k \in DOMAIN kept |-> kept[k][2]]

\* The node carries the key with a non-empty value
Carries(node, key) == key \in DOMAIN node /\ node[key] # ""

MainAxisTable ==
    { <<"start", "flex-start">>, <<"end", "flex-end">>, <<"center", "center">>,
      <<"between", "space-between">> }

CrossAxisTable ==
    { <<"start", "flex-start">>, <<"end", "flex-end">>, <<"center", "center">> }

\* The value a table gives, or the value itself when the table has no row
Looked(table, value) ==
    IF \E row \in table : row[1] = value
    THEN (CHOOSE row \in table : row[1] = value)[2]
    ELSE value

\* The rule set follows the container style rule for the node
ContainerRule(node, style) ==
    /\ Len(style) >= 2
    /\ style[1] = <<"display", "flex">>
    /\ style[2][1] = "flex-direction"
    /\ style[2][2] = (IF "direction" \in DOMAIN node /\ node.direction = "col"
                      THEN "column" ELSE "row")
    /\ RulesOf(style, "display") = <<"flex">>
    /\ Len(RulesOf(style, "flex-direction")) = 1
    /\ RulesOf(style, "justify-content") =
          (IF Carries(node, "alignMain")
           THEN <<Looked(MainAxisTable, node.alignMain)>> ELSE <<>>)
    /\ RulesOf(style, "align-items") =
          (IF Carries(node, "alignCross")
           THEN <<Looked(CrossAxisTable, node.alignCross)>> ELSE <<>>)
    /\ RulesOf(style, "gap") =
          (IF "gap" \in DOMAIN node
           THEN (IF node.gap # 0 THEN <<node.gap>> ELSE <<>>)
           ELSE <<DefaultGap>>)

\* C23: when render_node opens a container it writes one line whose rule
\* set starts with display: flex and then flex-direction, column iff the
\* direction is col and row otherwise (also without a direction);
\* justify-content is there iff the node carries alignMain, with start,
\* end, center, between mapped to flex-start, flex-end, center,
\* space-between; align-items is there iff the node carries alignCross, with
\* start, end, center mapped to flex-start, flex-end, center and between
\* left as it is; a gap rule is there iff the gap (8 when the node has none)
\* is not 0.
C23_ContainerStyleRule ==
    [][(AtNode /\ NodeType(Top.node) = "container")
        => /\ Len(lines') = Len(lines) + 1
           /\ ContainerRule(Top.node, lines'[Len(lines')].style)]_vars

\* C23 witness: a column with alignMain between, alignCross between and gap
\* 0 was opened; its rule set has the four rules and no gap.
C23_Witness ==
    /\ pc = "done"
    /\ Carries(widget_dsl.widget.root, "alignCross")
    /\ widget_dsl.widget.root.alignCross = "between"
    /\ html.structure[1].style =
          << <<"display", "flex">>, <<"flex-direction", "column">>,
             <<"justify-content", "space-between">>, <<"align-items", "between">> >>

\* A container without direction, gap and alignments: row with the gap 8
C23_WitnessDefaults ==
    /\ pc = "done"
    /\ widget_dsl.widget.root = [type |-> "container"]
    /\ html.structure[1].style =
          << <<"display", "flex">>, <<"flex-direction", "row">>, <<"gap", DefaultGap>> >>

----------------------------------------------------------------------------
(* Structure of the converted tree (Spec) *)

\* The number of nodes of a DSL tree
RECURSIVE DslSize(_)
DslSize(d) ==
    LET kids == ChildrenOf(d)
        RECURSIVE Sum(_)
        Sum(i) == IF i = 0 THEN 0 ELSE DslSize(kids[i]) + Sum(i - 1)
    IN  1 + Sum(Len(kids))

\* What a DSL leaf keeps of the layout node it was made from
CarriesMarkOf(l, d) ==
    LET rect == _rect_from_bounds(IF "bounds" \in DOMAIN l THEN l.bounds ELSE ZeroBounds)
    IN  CASE ComponentOf(d) = "Text" ->
                d.content = (IF "text" \in DOMAIN l THEN l.text ELSE "")
          [] ComponentOf(d) = "Icon" ->
                d.props.name = (IF "content" \in DOMAIN l THEN l.content ELSE "")
          [] ComponentOf(d) = "Image" ->
                d.width = width(rect) /\ d.height = height(rect)
          [] OTHER -> FALSE

\* d is the node emitted for l, and so on for the children by position
RECURSIVE Mirrors(_, _)
Mirrors(l, d) ==
    LET subs == SubNodesOf(l)
    IN  /\ TypeOf(d) \in {"container", "leaf"}
        /\ TypeOf(d) = "leaf" =>
              /\ subs = <<>>
              /\ "children" \notin DOMAIN d
              /\ ComponentOf(d) = LeafKindOfType(l)
              /\ CarriesMarkOf(l, d)
        /\ TypeOf(d) = "container" =>
              /\ "children" \in DOMAIN d
              /\ Len(d.children) = Len(subs)
              /\ \A i \in DOMAIN subs : Mirrors(subs[i], d.children[i])

\* Two siblings of l, or of a node below l, come in an order other than
\* that of their leading edges on an axis
RECURSIVE HasUnsortedSiblings(_)
HasUnsortedSiblings(l) ==
    LET subs == SubNodesOf(l)
    IN  \/ \E i \in DOMAIN subs, j \in DOMAIN subs :
              /\ i < j
              /\ HasBounds(subs[i]) /\ HasBounds(subs[j])
              /\ \/ subs[j].bounds[1] < subs[i].bounds[1]
                 \/ subs[j].bounds[2] < subs[i].bounds[2]
        \/ \E i \in DOMAIN subs : HasUnsortedSiblings(subs[i])

\* C24: the call of the converter on a layout tree returns (its recursion
\* makes one call for every layout node), and with a DSL tree that has one
\* node for every layout node: the emitted node of a layout node with
\* subNodes is a container with as many children as there are subNodes,
\* the i-th child being the node emitted for the i-th subNode, whatever
\* the order of the leading edges.
C24_StructurePreserved ==
    Pipeline =>
        /\ pc = "init" =>
              LET result == layout_json_to_widget_dsl(layout_json, physical_size,
                                                      virtual_size)
              IN  /\ ~IsRaised(result)
                  /\ DslSize(result.widget.root) = TreeSize(layout_json)
        /\ pc # "init" =>
              /\ pc # "failed"
              /\ widget_dsl # NoDsl
              /\ DslSize(widget_dsl.widget.root) = TreeSize(layout_json)
              /\ Mirrors(layout_json, widget_dsl.widget.root)

\* C24 witness: a tree whose siblings are not in the order of their leading
\* edges was converted; the children of the emitted root are in the input's
\* order.
C24_Witness ==
    /\ Pipeline
    /\ pc = "ready"
    /\ Len(SubNodesOf(layout_json)) = 2
    /\ HasBounds(layout_json.subNodes[1]) /\ HasBounds(layout_json.subNodes[2])
    /\ widget_dsl.widget.root.direction = "row"
    /\ layout_json.subNodes[2].bounds[1] < layout_json.subNodes[1].bounds[1]
    /\ ComponentOf(widget_dsl.widget.root.children[1]) = "Image"
    /\ ComponentOf(widget_dsl.widget.root.children[2]) = "Text"

\* A tree of three levels was converted.
C24_WitnessNested ==
    /\ Pipeline
    /\ pc = "ready"
    /\ TreeSize(layout_json) = 3
    /\ Len(SubNodesOf(layout_json)) = 1
    /\ TypeOf(widget_dsl.widget.root.children[1]) = "container"
    /\ Len(widget_dsl.widget.root.children[1].children) = 1

----------------------------------------------------------------------------
(* Nodes that are neither container nor leaf (Spec) *)

Skipped(d) == TypeOf(d) \notin {"container", "leaf"}

\* A leaf without a component that the traversal reaches: no node of
\* another type lies above it
RECURSIVE ReachesInvalidLeaf(_)
ReachesInvalidLeaf(d) ==
    \/ TypeOf(d) = "leaf" /\ MissingComponent(d)
    \/ /\ TypeOf(d) = "container"
       /\ \E i \in DOMAIN ChildrenOf(d) : ReachesInvalidLeaf(ChildrenOf(d)[i])

\* Some node below a node of another type
RECURSIVE HasSkippedSubtree(_)
HasSkippedSubtree(d) ==
    \/ Skipped(d) /\ ChildrenOf(d) # <<>>
    \/ /\ TypeOf(d) = "container"
       /\ \E i \in DOMAIN ChildrenOf(d) : HasSkippedSubtree(ChildrenOf(d)[i])

\* C25: render_node on a node whose type is neither container nor leaf (or
\* that has no type) writes no line and no script, takes no identifier,
\* raises nothing and visits none of the nodes below it; so InvalidLeaf is
\* raised only for a leaf without a component that has containers only
\* above it, the chart and sparkline ids count the reached leaves only, and
\* a non-empty root of such a type compiles to a document whose structure
\* and behaviour are empty.
C25_SilentSkip ==
    /\ [][(AtNode /\ Skipped(Top.node)) =>
            /\ lines' = lines
            /\ scripts' = scripts
            /\ component_counter' = component_counter
            /\ error' = error
            /\ pc' = pc
            /\ stack' = Tail(stack)]_vars
    /\ []((pc \in {"render", "done", "failed"} /\ HasRoot(widget_dsl)) =>
            LET root == widget_dsl.widget.root
            IN  /\ (pc = "failed" /\ error = "InvalidLeaf") => ReachesInvalidLeaf(root)
                /\ pc = "done" =>
                      /\ ~ReachesInvalidLeaf(root)
                      /\ Len(NumbersOf(html.structure, "chart")) = LeavesOfKind(root, FALSE)
                      /\ Len(NumbersOf(html.structure, "sparkline"))
                            = LeavesOfKind(root, TRUE)
                      /\ CountingFromZero(NumbersOf(html.structure, "chart"))
                /\ Skipped(root) =>
                      /\ pc # "failed"
                      /\ error = ""
                      /\ lines = <<>>
                      /\ scripts = <<>>
                      /\ component_counter = EmptyCounter
                      /\ pc = "done" =>
                            html.structure = <<>> /\ html.behavior = <<>>)

\* C25 witness: below a container, a node of type group that holds a chart
\* and a button is followed by a chart; the document has the container's two
\* lines and the one line of the second chart, which got the id chart-0, and
\* no button.
C25_Witness ==
    /\ pc = "done"
    /\ TypeOf(widget_dsl.widget.root) = "container"
    /\ Len(ChildrenOf(widget_dsl.widget.root)) = 2
    /\ TypeOf(widget_dsl.widget.root.children[1]) = "group"
    /\ ComponentOf(widget_dsl.widget.root.children[2]) = "PieChart"
    /\ Len(html.structure) = 3
    /\ NumbersOf(html.structure, "chart") = <<0>>
    /\ Len(html.behavior) = 1

\* A root of type spacer above a leaf without a component compiled.
C25_WitnessRoot ==
    /\ pc = "done"
    /\ TypeOf(widget_dsl.widget.root) = "spacer"
    /\ HasSkippedSubtree(widget_dsl.widget.root)
    /\ MissingComponent(widget_dsl.widget.root.children[1])
    /\ html.structure = <<>>
    /\ error = ""

\* A root without a type compiled to an empty structure.
C25_WitnessTypeless ==
    /\ pc = "done"
    /\ HasRoot(widget_dsl)
    /\ "type" \notin DOMAIN widget_dsl.widget.root
    /\ html.structure = <<>>

====
